---- MODULE Spec2Model ----
(***************************************************************************)
(* Model of the private-office pricing engine (donnyt/pricing-engine):     *)
(* rule resolution (src/pricing/rules.py), the smart-target step function  *)
(* and the four-stage price calculation (src/pricing/calculator.py), the   *)
(* parse functions (src/utils/parsing.py, src/utils/error_handler.py), the *)
(* batch pipeline and its REST endpoints (src/pricing/service.py,          *)
(* src/api/pricing_router.py), the SQLite storage (src/sqlite_storage.py), *)
(* the expense loader (src/data/loader.py) and the reload of the monthly   *)
(* table (src/zoho_integration.py).                                        *)
(*                                                                         *)
(* Numbers.  Python floats and ints are modelled as exact rationals        *)
(* <<num, den>> in lowest terms with den > 0; Python's None is <<0, 0>>.   *)
(* The model therefore says nothing about binary floating-point error;     *)
(* every comparison, floor, ceiling and round is exact.                    *)
(*                                                                         *)
(* Dictionaries.  A Python dict is a function whose DOMAIN is the set of   *)
(* keys that are present; d.get(k, default) is Get(d, k, default).         *)
(***************************************************************************)
EXTENDS Integers, Sequences, FiniteSets, TLC

VARIABLES
    config,          \* PricingCalculator.config, the loaded YAML mapping
    op,              \* the call that produced the current outcome, or "idle"
    location_data,   \* LocationData passed to calculate_pricing
    call_args,       \* arguments of build_rules / get_target_breakeven_occupancy
    raised,          \* the exception the call raised, or NoError
    result,          \* PricingResult returned by calculate_pricing
    rules,           \* PricingRules returned by build_rules
    target,          \* (target, is_smart_target) returned by get_target_breakeven_occupancy
    named,           \* the location a raised configuration error names in its message, or ""
    enabled,         \* the flag returned by is_smart_target_enabled
    val,             \* the value passed to parse_float / parse_int / parse_pct
    absolute,        \* the absolute flag passed to parse_float
    context,         \* the error context passed to the parse function, or NoContext
    parsed,          \* the number the parse function returned
    input_df,        \* the table passed to run_pricing_pipeline, a sequence of rows
    target_year,     \* target_year of run_pricing_pipeline
    target_month,    \* target_month of run_pricing_pipeline
    outputs,         \* the list returned by run_pricing_pipeline
    calculator_calls, \* the LocationData values the run passed to calculate_pricing, in order
    response,        \* the HTTP response of a REST endpoint: status code and body
    columns,         \* the columns of the published_prices table of the database file
    published_prices, \* the rows of the published_prices table
    pnl_sms_by_month, \* the rows of the pnl_sms_by_month table, in insertion order
    storage_args,    \* the arguments of the storage or loader call
    storage_return,  \* what the storage or loader call returned
    year_cursor,     \* y, the year counter of the month enumeration
    month_cursor,    \* m, the month counter of the month enumeration
    ym               \* the list of (year, month) pairs the enumeration has built

\* The variables of the calculator and of rule resolution.
pricingVars == <<location_data, call_args, result, rules, target, named, enabled>>

\* The variables of the parse functions.
parsingVars == <<val, absolute, context, parsed>>

\* The variables of the pricing pipeline.
pipelineVars == <<input_df, target_year, target_month, outputs, calculator_calls>>

\* The variables of the REST endpoints and of the SQLite storage.
storageVars == <<columns, published_prices, pnl_sms_by_month, storage_args, storage_return,
                 year_cursor, month_cursor, ym>>

serviceVars == <<response, storageVars>>

vars == <<config, op, raised, pricingVars, parsingVars, pipelineVars, serviceVars>>

---------------------------------------------------------------------------
(* Exact rational arithmetic standing for Python's float arithmetic.       *)

None == <<0, 0>>
IsNone(x) == x[2] = 0

Abs(n) == IF n < 0 THEN -n ELSE n

RECURSIVE GCD(_, _)
GCD(a, b) == IF b = 0 THEN a ELSE GCD(b, a % b)

\* n / d for integers n, d with d > 0, in lowest terms.
Rat(n, d) == LET g == GCD(Abs(n), d) IN <<n \div g, d \div g>>

Num(n) == <<n, 1>>

\* a * b; cross-reduced first so that intermediate products stay small.
Mul(a, b) ==
    LET g1 == GCD(Abs(a[1]), b[2])
        g2 == GCD(Abs(b[1]), a[2])
    IN  <<(a[1] \div g1) * (b[1] \div g2), (a[2] \div g2) * (b[2] \div g1)>>

\* 1 / b, b # 0.
Inv(b) == IF b[1] > 0 THEN <<b[2], b[1]>> ELSE <<-b[2], -b[1]>>

\* a / b, b # 0.
Div(a, b) == Mul(a, Inv(b))

Add(a, b) == Rat(a[1] * b[2] + b[1] * a[2], a[2] * b[2])

Sub(a, b) == Rat(a[1] * b[2] - b[1] * a[2], a[2] * b[2])

Lt(a, b) == a[1] * b[2] < b[1] * a[2]

Le(a, b) == a[1] * b[2] <= b[1] * a[2]

\* math.floor / math.ceil of a rational, as integers.
Floor(a) == a[1] \div a[2]

Ceil(a) == -((-a[1]) \div a[2])

IsInteger(a) == a[2] = 1

\* Python truthiness of an Optional number: None and 0 are falsy.
Truthy(x) == ~IsNone(x) /\ x[1] # 0

\* Python 3 built-in round(x) with one argument: round half to even.
round(x) ==
    LET f == Floor(x)
        r == x[1] - f * x[2]      \* 0 <= r < x[2]; x = f + r / x[2]
    IN  IF 2 * r < x[2] THEN f
        ELSE IF 2 * r > x[2] THEN f + 1
        ELSE IF f % 2 = 0 THEN f ELSE f + 1

---------------------------------------------------------------------------
(* dict.get                                                                *)

EmptyDict == [k \in {} |-> None]

Has(d, k) == k \in DOMAIN d

Get(d, k, default) == IF k \in DOMAIN d THEN d[k] ELSE default

---------------------------------------------------------------------------
(* Exceptions.  A call either returns or raises exactly one of these.      *)

NoError == "none"
ErrUseSmartTarget == "ValueError: Location must have 'use_smart_target' configured"
ErrInvalidTarget == "ValueError: Location has invalid target_breakeven_occupancy value"
ErrPrecondition == "ValueError: Total PO seats and target breakeven occupancy must be greater than zero."
ErrFormatNone == "TypeError: unsupported format string passed to NoneType.__format__"

---------------------------------------------------------------------------
(* src/pricing/rules.py                                                    *)

\* isinstance(x, (int, float)) for a configuration value.
IsNumber(x) == x[2] > 0

\* cfg.get("locations", {}).get(location, {})
LocCfg(location, cfg) == Get(Get(cfg, "locations", EmptyDict), location, EmptyDict)

NoRules ==
    [min_price |-> None, max_price |-> None, margin_of_safety |-> None,
     dynamic_pricing_tiers |-> <<>>, use_smart_target |-> FALSE]

\* The margin_of_safety default of build_rules (0.5).
DefaultMargin == Rat(1, 2)

\* The static target default of get_target_breakeven_occupancy (70.0).
DefaultTarget == Num(70)

\* Mutant: a per-location dynamic_pricing_tiers entry overrides the global tier list.
build_rules_location_tiers(location, cfg) ==
    LET loc_cfg == LocCfg(location, cfg)
        static_target == Get(loc_cfg, "target_breakeven_occupancy", None)
    IN  IF ~Has(loc_cfg, "use_smart_target")
        THEN [raised |-> ErrUseSmartTarget, named |-> location, rules |-> NoRules]
        ELSE IF /\ loc_cfg["use_smart_target"]
                /\ ~IsNone(static_target)
                /\ (~IsNumber(static_target) \/ Le(static_target, Num(0)))
        THEN [raised |-> ErrInvalidTarget, named |-> location, rules |-> NoRules]
        ELSE [raised |-> NoError, named |-> "",
              rules |->
                [min_price |-> Get(loc_cfg, "min_price", None),
                 max_price |-> Get(loc_cfg, "max_price", None),
                 margin_of_safety |->
                     Get(loc_cfg, "margin_of_safety",
                         Get(cfg, "margin_of_safety", DefaultMargin)),
                 dynamic_pricing_tiers |->
                     Get(loc_cfg, "dynamic_pricing_tiers",
                         Get(cfg, "dynamic_pricing_tiers", <<>>)),
                 use_smart_target |-> loc_cfg["use_smart_target"]]]

build_rules(location, cfg) ==
    LET loc_cfg == LocCfg(location, cfg)
        static_target == Get(loc_cfg, "target_breakeven_occupancy", None)
    IN  IF ~Has(loc_cfg, "use_smart_target")
        THEN [raised |-> ErrUseSmartTarget, named |-> location, rules |-> NoRules]
        ELSE IF /\ loc_cfg["use_smart_target"]
                /\ ~IsNone(static_target)
                /\ (~IsNumber(static_target) \/ Le(static_target, Num(0)))
        THEN [raised |-> ErrInvalidTarget, named |-> location, rules |-> NoRules]
        ELSE [raised |-> NoError, named |-> "",
              rules |->
                [min_price |-> Get(loc_cfg, "min_price", None),
                 max_price |-> Get(loc_cfg, "max_price", None),
                 margin_of_safety |->
                     Get(loc_cfg, "margin_of_safety",
                         Get(cfg, "margin_of_safety", DefaultMargin)),
                 dynamic_pricing_tiers |-> Get(cfg, "dynamic_pricing_tiers", <<>>),
                 use_smart_target |-> loc_cfg["use_smart_target"]]]

\* Mutant: the thresholds 50, 70, 15 and 25 are exclusive (< instead of <=).
improvement_multiplier_strict(actual_breakeven_occupancy_pct, current_occupancy_pct) ==
    LET is_profitable == Le(actual_breakeven_occupancy_pct, current_occupancy_pct)
        loss_gap == Sub(actual_breakeven_occupancy_pct, current_occupancy_pct)
    IN  IF is_profitable
        THEN IF Lt(actual_breakeven_occupancy_pct, Num(50)) THEN Rat(97, 100)
             ELSE IF Lt(actual_breakeven_occupancy_pct, Num(70)) THEN Rat(95, 100)
             ELSE Rat(93, 100)
        ELSE IF Lt(loss_gap, Num(15)) THEN Rat(97, 100)
             ELSE IF Lt(loss_gap, Num(25)) THEN Rat(94, 100)
             ELSE Rat(90, 100)

\* Mutant: a location within 15 points of its breakeven keeps its target (no reduction).
improvement_multiplier_no_reduction(actual_breakeven_occupancy_pct, current_occupancy_pct) ==
    LET is_profitable == Le(actual_breakeven_occupancy_pct, current_occupancy_pct)
        loss_gap == Sub(actual_breakeven_occupancy_pct, current_occupancy_pct)
    IN  IF is_profitable
        THEN IF Le(actual_breakeven_occupancy_pct, Num(50)) THEN Rat(97, 100)
             ELSE IF Le(actual_breakeven_occupancy_pct, Num(70)) THEN Rat(95, 100)
             ELSE Rat(93, 100)
        ELSE IF Le(loss_gap, Num(15)) THEN Num(1)
             ELSE IF Le(loss_gap, Num(25)) THEN Rat(94, 100)
             ELSE Rat(90, 100)

\* The improvement multiplier computed inline by get_target_breakeven_occupancy.
improvement_multiplier(actual_breakeven_occupancy_pct, current_occupancy_pct) ==
    LET is_profitable == Le(actual_breakeven_occupancy_pct, current_occupancy_pct)
        loss_gap == Sub(actual_breakeven_occupancy_pct, current_occupancy_pct)
    IN  IF is_profitable
        THEN IF Le(actual_breakeven_occupancy_pct, Num(50)) THEN Rat(97, 100)
             ELSE IF Le(actual_breakeven_occupancy_pct, Num(70)) THEN Rat(95, 100)
             ELSE Rat(93, 100)
        ELSE IF Le(loss_gap, Num(15)) THEN Rat(97, 100)
             ELSE IF Le(loss_gap, Num(25)) THEN Rat(94, 100)
             ELSE Rat(90, 100)

\* Mutant: the smart path is taken without checking that the current occupancy is supplied.
get_target_ignoring_missing_occupancy(location, cfg, actual_breakeven_occupancy_pct, current_occupancy_pct) ==
    LET loc_cfg == LocCfg(location, cfg)
    IN  IF ~Has(loc_cfg, "use_smart_target")
        THEN [raised |-> ErrUseSmartTarget, named |-> location, target |-> None, is_smart |-> FALSE]
        ELSE IF loc_cfg["use_smart_target"] /\ ~IsNone(actual_breakeven_occupancy_pct)
        THEN [raised |-> NoError, named |-> "",
              target |-> Mul(actual_breakeven_occupancy_pct,
                             improvement_multiplier(actual_breakeven_occupancy_pct,
                                                    current_occupancy_pct)),
              is_smart |-> TRUE]
        ELSE [raised |-> NoError, named |-> "",
              target |-> Get(loc_cfg, "target_breakeven_occupancy", DefaultTarget),
              is_smart |-> FALSE]

\* Mutant: a smart target of zero falls back to the static target.
get_target_falling_back_on_zero(location, cfg, actual_breakeven_occupancy_pct, current_occupancy_pct) ==
    LET loc_cfg == LocCfg(location, cfg)
    IN  IF ~Has(loc_cfg, "use_smart_target")
        THEN [raised |-> ErrUseSmartTarget, named |-> location, target |-> None, is_smart |-> FALSE]
        ELSE IF /\ loc_cfg["use_smart_target"]
                /\ ~IsNone(actual_breakeven_occupancy_pct)
                /\ ~IsNone(current_occupancy_pct)
                /\ actual_breakeven_occupancy_pct # Num(0)
        THEN [raised |-> NoError, named |-> "",
              target |-> Mul(actual_breakeven_occupancy_pct,
                             improvement_multiplier(actual_breakeven_occupancy_pct,
                                                    current_occupancy_pct)),
              is_smart |-> TRUE]
        ELSE [raised |-> NoError, named |-> "",
              target |-> Get(loc_cfg, "target_breakeven_occupancy", DefaultTarget),
              is_smart |-> FALSE]

get_target_breakeven_occupancy(location, cfg, actual_breakeven_occupancy_pct, current_occupancy_pct) ==
    LET loc_cfg == LocCfg(location, cfg)
    IN  IF ~Has(loc_cfg, "use_smart_target")
        THEN [raised |-> ErrUseSmartTarget, named |-> location, target |-> None, is_smart |-> FALSE]
        ELSE IF /\ loc_cfg["use_smart_target"]
                /\ ~IsNone(actual_breakeven_occupancy_pct)
                /\ ~IsNone(current_occupancy_pct)
        THEN [raised |-> NoError, named |-> "",
              target |-> Mul(actual_breakeven_occupancy_pct,
                             improvement_multiplier(actual_breakeven_occupancy_pct,
                                                    current_occupancy_pct)),
              is_smart |-> TRUE]
        ELSE [raised |-> NoError, named |-> "",
              target |-> Get(loc_cfg, "target_breakeven_occupancy", DefaultTarget),
              is_smart |-> FALSE]

\* is_smart_target_enabled: the configured flag, or the error for a missing flag.
is_smart_target_enabled(location, cfg) ==
    LET loc_cfg == LocCfg(location, cfg)
    IN  IF ~Has(loc_cfg, "use_smart_target")
        THEN [raised |-> ErrUseSmartTarget, named |-> location, enabled |-> FALSE]
        ELSE [raised |-> NoError, named |-> "", enabled |-> loc_cfg["use_smart_target"]]

\* Mutant: the validation accepts every static target that is a number.
validate_location_any_number(location_name, loc_cfg) ==
    LET target_value == Get(loc_cfg, "target_breakeven_occupancy", None)
    IN  IF ~Has(loc_cfg, "use_smart_target")
        THEN [raised |-> ErrUseSmartTarget, named |-> location_name]
        ELSE IF /\ loc_cfg["use_smart_target"]
                /\ ~IsNone(target_value)
                /\ ~IsNumber(target_value)
        THEN [raised |-> ErrInvalidTarget, named |-> location_name]
        ELSE [raised |-> NoError, named |-> ""]

\* The body of the loop of validate_smart_target_configuration for one location.
validate_location(location_name, loc_cfg) ==
    LET target_value == Get(loc_cfg, "target_breakeven_occupancy", None)
    IN  IF ~Has(loc_cfg, "use_smart_target")
        THEN [raised |-> ErrUseSmartTarget, named |-> location_name]
        ELSE IF /\ loc_cfg["use_smart_target"]
                /\ ~IsNone(target_value)
                /\ (~IsNumber(target_value) \/ Le(target_value, Num(0)))
        THEN [raised |-> ErrInvalidTarget, named |-> location_name]
        ELSE [raised |-> NoError, named |-> ""]

\* The loop over locations.items(), in the order `order` in which the mapping
\* lists its keys, from position i: the first error ends it.
RECURSIVE ValidateFrom(_, _, _)
ValidateFrom(locations, order, i) ==
    IF i > Len(order) THEN [raised |-> NoError, named |-> ""]
    ELSE IF ~Has(locations, order[i]) THEN ValidateFrom(locations, order, i + 1)
    ELSE LET r == validate_location(order[i], locations[order[i]])
         IN  IF r.raised # NoError THEN r ELSE ValidateFrom(locations, order, i + 1)

---------------------------------------------------------------------------
(* src/pricing/calculator.py                                               *)

\* The rounding unit of _round_to_nearest and of the bottom price.
NEAREST == 50000

\* pct_to_decimal (src/utils/parsing.py)
pct_to_decimal(pct) == Div(pct, Num(100))

\* Mutant: the actual breakeven is computed only for a positive average expense.
actual_breakeven_occupancy_of_positive_expense(ld) ==
    IF /\ Truthy(ld.sold_price_per_po_seat_actual)
       /\ ld.total_po_seats # 0
       /\ Lt(Num(0), ld.sold_price_per_po_seat_actual)
       /\ ld.total_po_seats > 0
       /\ Lt(Num(0), ld.avg_exp_total_po_expense_amount)
    THEN Mul(Div(ld.avg_exp_total_po_expense_amount,
                 Mul(ld.sold_price_per_po_seat_actual, Num(ld.total_po_seats))),
             Num(100))
    ELSE None

\* The guard of calculate_pricing on the sold price and the seat count:
\* the actual breakeven occupancy is computed only when both are truthy and > 0.
actual_breakeven_occupancy(ld) ==
    IF /\ Truthy(ld.sold_price_per_po_seat_actual)
       /\ ld.total_po_seats # 0
       /\ Lt(Num(0), ld.sold_price_per_po_seat_actual)
       /\ ld.total_po_seats > 0
    THEN Mul(Div(ld.avg_exp_total_po_expense_amount,
                 Mul(ld.sold_price_per_po_seat_actual, Num(ld.total_po_seats))),
             Num(100))
    ELSE None

\* The guard of _calculate_breakeven_price: TRUE when it raises.
breakeven_precondition_violated(ld, target_breakeven_occupancy) ==
    ld.total_po_seats = 0 \/ ~Truthy(target_breakeven_occupancy)

\* _calculate_breakeven_price past its guard.
_calculate_breakeven_price(ld, target_breakeven_occupancy) ==
    Div(ld.avg_exp_total_po_expense_amount,
        Mul(Num(ld.total_po_seats), pct_to_decimal(target_breakeven_occupancy)))

\* The first tier, in list order, that contains the occupancy; 0 when none does.
RECURSIVE FirstTier(_, _, _)
FirstTier(tiers, occupancy_pct, i) ==
    IF i > Len(tiers) THEN 0
    ELSE IF /\ Lt(tiers[i].min_occupancy, occupancy_pct)
            /\ Le(occupancy_pct, tiers[i].max_occupancy)
         THEN i
         ELSE FirstTier(tiers, occupancy_pct, i + 1)

\* Mutant: a tier also contains its own min_occupancy (min <= occupancy <= max).
RECURSIVE FirstTierClosed(_, _, _)
FirstTierClosed(tiers, occupancy_pct, i) ==
    IF i > Len(tiers) THEN 0
    ELSE IF /\ Le(tiers[i].min_occupancy, occupancy_pct)
            /\ Le(occupancy_pct, tiers[i].max_occupancy)
         THEN i
         ELSE FirstTierClosed(tiers, occupancy_pct, i + 1)

apply_dynamic_multiplier_closed(breakeven_price, occupancy_pct, tiers) ==
    LET i == FirstTierClosed(tiers, occupancy_pct, 1)
        multiplier == IF i = 0 THEN Num(1) ELSE tiers[i].multiplier
    IN  <<Mul(breakeven_price, multiplier), multiplier>>

\* _apply_dynamic_multiplier: (base price, multiplier).
_apply_dynamic_multiplier(breakeven_price, occupancy_pct, tiers) ==
    LET i == FirstTier(tiers, occupancy_pct, 1)
        multiplier == IF i = 0 THEN Num(1) ELSE tiers[i].multiplier
    IN  <<Mul(breakeven_price, multiplier), multiplier>>

\* Mutant: the margin stage rounds its result to 50,000, as the superseded
\* engine in src/po_pricing_engine.py did.
apply_margin_of_safety_rounded(base_price, margin_of_safety) ==
    Num(round(Div(Mul(base_price, Add(Num(1), margin_of_safety)), Num(NEAREST))) * NEAREST)

\* Mutant: a calculator that keeps the price of its previous call and applies
\* the margin to it when there is one.
apply_margin_of_safety_to_kept_price(base_price, margin_of_safety) ==
    IF IsNone(result.price_with_margin)
    THEN Mul(base_price, Add(Num(1), margin_of_safety))
    ELSE Mul(Add(result.price_with_margin, Num(NEAREST)), Add(Num(1), margin_of_safety))

_apply_margin_of_safety(base_price, margin_of_safety) ==
    Mul(base_price, Add(Num(1), margin_of_safety))

\* Mutant: the clamped price is rounded to 50,000 once more.
enforce_price_bounds_then_round(price, min_price, max_price) ==
    LET clamped == IF ~IsNone(min_price) /\ Lt(price, min_price) THEN min_price
                   ELSE IF ~IsNone(max_price) /\ Lt(max_price, price) THEN max_price
                   ELSE price
    IN  Num(round(Div(clamped, Num(NEAREST))) * NEAREST)

_enforce_price_bounds(price, min_price, max_price) ==
    IF ~IsNone(min_price) /\ Lt(price, min_price) THEN min_price
    ELSE IF ~IsNone(max_price) /\ Lt(max_price, price) THEN max_price
    ELSE price

_round_to_nearest(value) == Num(round(Div(value, Num(NEAREST))) * NEAREST)

\* Mutant: the bottom price is rounded to the nearest multiple instead of up.
round_up_to_nearest_as_nearest(value, nearest) ==
    Num(round(Div(value, Num(nearest))) * nearest)

_round_up_to_nearest(value, nearest) ==
    IF IsInteger(Div(value, Num(nearest))) THEN value
    ELSE Num(Ceil(Div(value, Num(nearest))) * nearest)

NoResult ==
    [location |-> "", recommended_price |-> None, latest_occupancy |-> None,
     target_breakeven_occupancy_pct |-> None,
     actual_breakeven_occupancy_pct |-> None,
     is_losing_money |-> FALSE, breakeven_price |-> None, base_price |-> None,
     price_with_margin |-> None, final_price |-> None, losing_money |-> FALSE,
     dynamic_multiplier |-> None, is_smart_target |-> FALSE]

\* Lines 75-118 of calculate_pricing: the four stages and the result record.
pricing_stages(ld, rls, actual, target_breakeven_occupancy, is_smart_target) ==
    LET step1 == _calculate_breakeven_price(ld, target_breakeven_occupancy)
        breakeven_price_rounded == _round_up_to_nearest(step1, NEAREST)
        dyn == _apply_dynamic_multiplier(step1, ld.po_seats_occupied_actual_pct,
                                         rls.dynamic_pricing_tiers)
        step2 == dyn[1]
        dynamic_multiplier == dyn[2]
        step3 == _apply_margin_of_safety(step2, rls.margin_of_safety)
        step4_rounded == _round_to_nearest(step3)
        step4 == _enforce_price_bounds(step4_rounded, rls.min_price, rls.max_price)
        losing_money ==
            IF ~IsNone(actual)
            THEN Lt(ld.po_seats_occupied_actual_pct, actual)
            ELSE FALSE
    IN  [location |-> ld.name,
         recommended_price |-> step4,
         latest_occupancy |-> ld.po_seats_occupied_actual_pct,
         target_breakeven_occupancy_pct |-> target_breakeven_occupancy,
         actual_breakeven_occupancy_pct |-> actual,
         is_losing_money |-> losing_money,
         breakeven_price |-> breakeven_price_rounded,
         base_price |-> step2,
         price_with_margin |-> step3,
         final_price |-> step4,
         losing_money |-> losing_money,
         dynamic_multiplier |-> dynamic_multiplier,
         is_smart_target |-> is_smart_target]

Raise(e) == [raised |-> e, named |-> "", result |-> NoResult]

\* PricingCalculator.calculate_pricing: the exception raised, or the result.
calculate_pricing(ld, cfg) ==
    LET built == build_rules(ld.name, cfg)
        actual == actual_breakeven_occupancy(ld)
        tgt == get_target_breakeven_occupancy(ld.name, cfg, actual,
                                              ld.po_seats_occupied_actual_pct)
    IN  IF built.raised # NoError THEN [Raise(built.raised) EXCEPT !.named = built.named]
        ELSE IF tgt.raised # NoError THEN [Raise(tgt.raised) EXCEPT !.named = tgt.named]
        \* the log line formats the static target with ":.1f"
        ELSE IF ~tgt.is_smart /\ IsNone(tgt.target) THEN Raise(ErrFormatNone)
        ELSE IF breakeven_precondition_violated(ld, tgt.target)
        THEN Raise(ErrPrecondition)
        ELSE [raised |-> NoError, named |-> "",
              result |-> pricing_stages(ld, built.rules, actual, tgt.target,
                                        tgt.is_smart)]

\* calculate_dynamic_improvement_pct, the calculator's copy of the step function.
calculate_dynamic_improvement_pct(breakeven_occupancy_pct, current_occupancy_pct) ==
    LET is_profitable == Le(breakeven_occupancy_pct, current_occupancy_pct)
        loss_gap == Sub(breakeven_occupancy_pct, current_occupancy_pct)
    IN  IF is_profitable
        THEN IF Le(breakeven_occupancy_pct, Num(50)) THEN Rat(97, 100)
             ELSE IF Le(breakeven_occupancy_pct, Num(70)) THEN Rat(95, 100)
             ELSE Rat(93, 100)
        ELSE IF Le(loss_gap, Num(15)) THEN Rat(97, 100)
             ELSE IF Le(loss_gap, Num(25)) THEN Rat(94, 100)
             ELSE Rat(90, 100)

---------------------------------------------------------------------------
(* Bounds of the explored inputs.                                          *)

MaxExpenseSteps == 4    \* average expense up to MaxExpenseSteps * 250,000
MaxOccSteps == 10       \* occupancy of a LocationData up to MaxOccSteps * 10
MaxPctSteps == 20       \* percentages passed to the target extraction up to MaxPctSteps * 5

---------------------------------------------------------------------------
(* Configurations: the mappings of the repository's tests and edge cases   *)
(* of the same shape.                                                      *)

TestLocation == "Test Location"
OtherLocation == "Invalid Location"
Locations == {TestLocation, OtherLocation}

\* A second configured location, listed after the first one in the mapping.
SecondLocation == "Second Location"
LocationOrder == <<TestLocation, SecondLocation>>

Tier(lo, hi, m) == [min_occupancy |-> lo, max_occupancy |-> hi, multiplier |-> m]

\* tests/test_po_pricing_engine.py: (0, 50] -> 0.8, (50, 100] -> 1.2
TiersTwo == <<Tier(Num(0), Num(50), Rat(4, 5)), Tier(Num(50), Num(100), Rat(6, 5))>>

\* overlapping on (40, 60], nothing below 20 or above 80
TiersOverlap == <<Tier(Num(20), Num(60), Rat(9, 10)), Tier(Num(40), Num(80), Rat(11, 10))>>

GlobalSections ==
    { EmptyDict,
      ("margin_of_safety" :> Rat(2, 5)) @@ ("dynamic_pricing_tiers" :> TiersTwo),
      ("margin_of_safety" :> Rat(1, 2)) @@ ("dynamic_pricing_tiers" :> TiersOverlap) }

Smart(b) == ("use_smart_target" :> b)
Target(t) == ("target_breakeven_occupancy" :> t)
Bounds(lo, hi) == ("min_price" :> lo) @@ ("max_price" :> hi)
Margin(m) == ("margin_of_safety" :> m)
LocationTiers(t) == ("dynamic_pricing_tiers" :> t)

\* A configuration value that is a string holding the numeral n, such as "70.0":
\* neither None nor an int or float.
Str(n) == <<n, -1>>

LocationConfigs ==
    { EmptyDict,
      \* tests/test_po_pricing_engine.py: no use_smart_target key
      Bounds(Num(100000), Num(300000)) @@ Margin(Rat(1, 2)) @@ Target(Num(50)),
      Bounds(Num(100000), Num(300000)) @@ Margin(Rat(1, 2)) @@ Target(Num(50)) @@ Smart(FALSE),
      \* tests/test_pricing_calculator.py TestSmartTargetCalculation
      Bounds(None, Num(3000000)) @@ Target(Num(70)) @@ Smart(TRUE),
      \* tests/test_pricing_calculator.py test_bottom_price_rounding_to_50000
      Bounds(Num(1000000), Num(5000000)) @@ Target(Num(70)) @@ Smart(FALSE),
      Smart(FALSE),
      Smart(TRUE),
      Target(Num(0)) @@ Smart(FALSE),
      Target(None) @@ Smart(FALSE),
      Target(None) @@ Smart(TRUE),
      Target(Num(0)) @@ Smart(TRUE),
      Target(Num(-10)) @@ Smart(TRUE),
      \* bounds that are no multiples of 50,000
      Bounds(Num(130000), Num(220000)) @@ Margin(Rat(1, 4)) @@ Target(Num(50)) @@ Smart(FALSE),
      Bounds(Num(130000), Num(220000)) @@ Smart(TRUE),
      \* min_price above max_price
      Bounds(Num(300000), Num(100000)) @@ Target(Num(50)) @@ Smart(FALSE),
      Margin(Rat(1, 4)) @@ Target(Num(50)) @@ Smart(FALSE),
      \* tests/test_pricing_rules.py: a string as the static target
      Target(Str(70)) @@ Smart(TRUE),
      \* tests/test_pricing_pipeline.py: the location carries its own tier list
      LocationTiers(TiersOverlap) @@ Bounds(Num(0), Num(2900000)) @@ Target(Num(50)) @@ Smart(FALSE),
      LocationTiers(TiersTwo) @@ Margin(Rat(1, 4)) @@ Smart(TRUE) }

\* Two configured locations (tests/test_pricing_rules.py, test_multiple_locations_validation).
LocationPairs ==
    { <<Target(Num(70)) @@ Smart(TRUE), Target(Num(-10)) @@ Smart(TRUE)>>,
      <<Target(Num(0)) @@ Smart(TRUE), Target(Str(70)) @@ Smart(TRUE)>>,
      <<Smart(FALSE), Target(Num(80)) @@ Smart(TRUE)>>,
      <<Target(Num(70)) @@ Smart(TRUE), EmptyDict>>,
      <<Target(Num(50)), Target(Num(0)) @@ Smart(TRUE)>> }

LocationsSections ==
    { EmptyDict, ("locations" :> EmptyDict) }
    \cup { ("locations" :> (TestLocation :> lc)) : lc \in LocationConfigs }
    \cup { ("locations" :> ((TestLocation :> pr[1]) @@ (SecondLocation :> pr[2]))) : pr \in LocationPairs }

Configs == { g @@ l : g \in GlobalSections, l \in LocationsSections }

\* validate_smart_target_configuration: the first error over cfg["locations"].
validate_smart_target_configuration(cfg) ==
    ValidateFrom(Get(cfg, "locations", EmptyDict), LocationOrder, 1)

---------------------------------------------------------------------------
(* Inputs.                                                                 *)

Expenses == { Num(k * 250000) : k \in -1..MaxExpenseSteps }
Seats == {-5, 0, 10, 100}
Occupancies == { Num(k * 10) : k \in 0..MaxOccSteps }
SoldPrices == { None, Num(0), Num(12500), Num(500000) }

LocationDatas ==
    [name : Locations,
     avg_exp_total_po_expense_amount : Expenses,
     po_seats_occupied_actual_pct : Occupancies,
     total_po_seats : Seats,
     sold_price_per_po_seat_actual : SoldPrices]

NoLocationData ==
    [name |-> "", avg_exp_total_po_expense_amount |-> None,
     po_seats_occupied_actual_pct |-> None, total_po_seats |-> 0,
     sold_price_per_po_seat_actual |-> None]

ActualArgs == { None } \cup { Num(k * 5) : k \in -2..MaxPctSteps }
CurrentArgs == { None } \cup { Num(k * 5) : k \in 0..MaxPctSteps }

NoCallArgs == [location |-> "", actual |-> None, current |-> None]
NoTarget == [target |-> None, is_smart |-> FALSE]

---------------------------------------------------------------------------
(* Values handed to the parse functions (src/utils/parsing.py): None, a    *)
(* number, or a string, which is a sequence of characters.                 *)

PyNone == [kind |-> "None", num |-> None, chars |-> <<>>]
PyNum(x) == [kind |-> "number", num |-> x, chars |-> <<>>]
PyStr(cs) == [kind |-> "str", num |-> None, chars |-> cs]

---------------------------------------------------------------------------
(* Bounds of the parsed strings.                                           *)

MaxStrLen == 4          \* strings handed to the parse functions have up to MaxStrLen characters

---------------------------------------------------------------------------
(* Python built-ins used by the parse functions.                           *)

Digits == {"0", "5", "7"}

\* The characters of the modelled strings: digits, the decimal point, the
\* thousands separator, the percent sign, the minus sign, a blank and a letter.
Alphabet == Digits \cup {".", ",", "%", "-", " ", "x"}

DigitValue(c) == CASE c = "0" -> 0 [] c = "5" -> 5 [] c = "7" -> 7

IsDigit(c) == c \in Digits

\* str.replace(c, "")
Remove(cs, c) == SelectSeq(cs, LAMBDA x : x # c)

\* c in s
Contains(cs, c) == \E i \in 1..Len(cs) : cs[i] = c

RECURSIVE LStrip(_)
LStrip(cs) == IF cs # <<>> /\ Head(cs) = " " THEN LStrip(Tail(cs)) ELSE cs

RECURSIVE RStrip(_)
RStrip(cs) == IF cs # <<>> /\ cs[Len(cs)] = " " THEN RStrip(SubSeq(cs, 1, Len(cs) - 1)) ELSE cs

\* str.strip()
strip(cs) == RStrip(LStrip(cs))

\* The integer a sequence of digits denotes.
RECURSIVE DigitsValue(_)
DigitsValue(ds) ==
    IF ds = <<>> THEN 0
    ELSE DigitsValue(SubSeq(ds, 1, Len(ds) - 1)) * 10 + DigitValue(ds[Len(ds)])

RECURSIVE Pow10(_)
Pow10(n) == IF n = 0 THEN 1 ELSE 10 * Pow10(n - 1)

\* The outcome of a conversion: the value, or a ValueError / TypeError.
Converted(x) == [ok |-> TRUE, value |-> x]
ConversionError == [ok |-> FALSE, value |-> None]

\* float(s) for a string s: surrounding blanks are ignored; an optional minus
\* sign, then digits with at most one decimal point and at least one digit.
float(cs) ==
    LET Numeral(s) ==
            LET negative == s # <<>> /\ Head(s) = "-"
                body == IF negative THEN Tail(s) ELSE s
                points == { i \in 1..Len(body) : body[i] = "." }
                wellformed == /\ \A i \in 1..Len(body) : IsDigit(body[i]) \/ body[i] = "."
                              /\ Cardinality(points) <= 1
                              /\ \E i \in 1..Len(body) : IsDigit(body[i])
                decimals == IF points = {} THEN 0 ELSE Len(body) - (CHOOSE i \in points : TRUE)
                Signed(magnitude) == IF negative THEN <<-magnitude[1], magnitude[2]>> ELSE magnitude
            IN  IF ~wellformed THEN ConversionError
                ELSE Converted(Signed(Rat(DigitsValue(SelectSeq(body, IsDigit)), Pow10(decimals))))
    IN  Numeral(strip(cs))

\* int(x) for a float x: truncation toward zero.
int(x) == IF x[1] >= 0 THEN Num(x[1] \div x[2]) ELSE Num(-((-x[1]) \div x[2]))

\* abs(x)
abs(x) == IF x[1] < 0 THEN <<-x[1], x[2]>> ELSE x

---------------------------------------------------------------------------
(* src/utils/error_handler.py and src/utils/parsing.py                     *)

ErrParsing == "ParsingException: Failed to parse"

\* context=None
NoContext == [operation |-> "None"]

\* create_error_context(operation): an ErrorContext instance.
create_error_context(operation) == [operation |-> operation]

\* bool(context): None is falsy, an ErrorContext instance (a dataclass) is truthy.
ContextTruthy(ctx) == ctx # NoContext

\* safe_parse, given the outcome of parse_func(value).
safe_parse(outcome, ctx, default) ==
    IF outcome.ok THEN [raised |-> NoError, parsed |-> outcome.value]
    ELSE IF ContextTruthy(ctx) THEN [raised |-> ErrParsing, parsed |-> None]
    ELSE [raised |-> NoError, parsed |-> default]

\* float(str(v).replace(",", "")): str(None) is "None", str of a number is its numeral.
_parse_float_internal(v) ==
    CASE v.kind = "str" -> float(Remove(v.chars, ","))
      [] v.kind = "number" -> Converted(v.num)
      [] OTHER -> ConversionError

\* int(float(str(v).replace(",", "")))
_parse_int_internal(v) ==
    LET Truncated(f) == IF f.ok THEN Converted(int(f.value)) ELSE ConversionError
    IN  Truncated(_parse_float_internal(v))

\* _parse_pct_internal: a string with "%" is its numeric part; any other value
\* is float(v), times 100 when it is below 1.0.
_parse_pct_internal(v) ==
    LET Scaled(num) == IF ~num.ok THEN ConversionError
                       ELSE IF Lt(num.value, Num(1)) THEN Converted(Mul(num.value, Num(100)))
                       ELSE Converted(num.value)
    IN  IF v.kind = "str" /\ Contains(v.chars, "%")
        THEN float(strip(Remove(v.chars, "%")))
        ELSE Scaled(IF v.kind = "str" THEN float(v.chars)
                    ELSE IF v.kind = "number" THEN Converted(v.num)
                    ELSE ConversionError)

\* The context the parse functions hand to safe_parse: the caller's, or a fresh one.
ContextOrFresh(ctx, operation) == IF ctx = NoContext THEN create_error_context(operation) ELSE ctx

parse_float(v, abs_flag, ctx) ==
    LET Absolute(r) == IF r.raised # NoError THEN r
                       ELSE [r EXCEPT !.parsed = IF abs_flag THEN abs(r.parsed) ELSE r.parsed]
    IN  Absolute(safe_parse(_parse_float_internal(v), ContextOrFresh(ctx, "parse_float"), Num(0)))

parse_int(v, ctx) ==
    safe_parse(_parse_int_internal(v), ContextOrFresh(ctx, "parse_int"), Num(0))

parse_pct(v, ctx) ==
    safe_parse(_parse_pct_internal(v), ContextOrFresh(ctx, "parse_pct"), Num(0))

\* No parse call is in progress.
ParsingIdle == val = PyNone /\ absolute = FALSE /\ context = NoContext /\ parsed = None

\* No request is being answered.
NoResponse == [status_code |-> 0, body |-> <<>>]

\* The columns scripts/init_database.py (lines 102-110) gives the published_prices table.
SchemaColumns ==
    {"id", "building_name", "year_from", "month_from", "year_to", "month_to", "price"}

NoStorageArgs == [building_name |-> <<>>]

\* No storage call is in progress and the tables are as the initialiser leaves them.
StorageIdle ==
    /\ columns = SchemaColumns
    /\ published_prices = {}
    /\ pnl_sms_by_month = <<>>
    /\ storage_args = NoStorageArgs
    /\ storage_return = None
    /\ year_cursor = 0
    /\ month_cursor = 0
    /\ ym = <<>>

ServiceIdle == response = NoResponse /\ StorageIdle

\* No pipeline run is in progress.
PipelineIdle ==
    /\ input_df = <<>>
    /\ target_year = 0
    /\ target_month = 0
    /\ outputs = <<>>
    /\ calculator_calls = <<>>

---------------------------------------------------------------------------
(* The state machine: a calculator is constructed over one configuration;  *)
(* each call is made from the idle state and its outcome is held until the *)
(* caller drops it.                                                        *)

Init ==
    /\ config \in Configs
    /\ op = "idle"
    /\ location_data = NoLocationData
    /\ call_args = NoCallArgs
    /\ raised = NoError
    /\ result = NoResult
    /\ rules = NoRules
    /\ target = NoTarget
    /\ named = ""
    /\ enabled = FALSE
    /\ ParsingIdle
    /\ PipelineIdle
    /\ ServiceIdle

CalculatePricing ==
    /\ op = "idle"
    /\ \E ld \in LocationDatas :
         LET r == calculate_pricing(ld, config)
         IN  /\ location_data' = ld
             /\ raised' = r.raised
             /\ named' = r.named
             /\ result' = r.result
    /\ op' = "calculate_pricing"
    /\ UNCHANGED <<config, call_args, rules, target, enabled, parsingVars, pipelineVars, serviceVars>>

BuildRules ==
    /\ op = "idle"
    /\ \E location \in Locations :
         LET r == build_rules(location, config)
         IN  /\ call_args' = [NoCallArgs EXCEPT !.location = location]
             /\ raised' = r.raised
             /\ named' = r.named
             /\ rules' = r.rules
    /\ op' = "build_rules"
    /\ UNCHANGED <<config, location_data, result, target, enabled, parsingVars, pipelineVars, serviceVars>>

GetTargetBreakevenOccupancy ==
    /\ op = "idle"
    /\ \E location \in Locations, actual \in ActualArgs, current \in CurrentArgs :
         LET r == get_target_breakeven_occupancy(location, config, actual, current)
         IN  /\ call_args' = [location |-> location, actual |-> actual, current |-> current]
             /\ raised' = r.raised
             /\ named' = r.named
             /\ target' = [target |-> r.target, is_smart |-> r.is_smart]
    /\ op' = "get_target_breakeven_occupancy"
    /\ UNCHANGED <<config, location_data, result, rules, enabled, parsingVars, pipelineVars, serviceVars>>

IsSmartTargetEnabled ==
    /\ op = "idle"
    /\ \E location \in Locations :
         LET r == is_smart_target_enabled(location, config)
         IN  /\ call_args' = [NoCallArgs EXCEPT !.location = location]
             /\ raised' = r.raised
             /\ named' = r.named
             /\ enabled' = r.enabled
    /\ op' = "is_smart_target_enabled"
    /\ UNCHANGED <<config, location_data, result, rules, target, parsingVars, pipelineVars, serviceVars>>

ValidateSmartTargetConfiguration ==
    /\ op = "idle"
    /\ LET r == validate_smart_target_configuration(config)
       IN  /\ raised' = r.raised
           /\ named' = r.named
    /\ op' = "validate_smart_target_configuration"
    /\ UNCHANGED <<config, location_data, call_args, result, rules, target, enabled, parsingVars, pipelineVars, serviceVars>>

\* The caller drops the outcome; the calculator keeps only its configuration.
Return ==
    /\ op # "idle"
    /\ op' = "idle"
    /\ location_data' = NoLocationData
    /\ call_args' = NoCallArgs
    /\ raised' = NoError
    /\ result' = NoResult
    /\ rules' = NoRules
    /\ target' = NoTarget
    /\ named' = ""
    /\ enabled' = FALSE
    /\ UNCHANGED <<config, parsingVars, pipelineVars, serviceVars>>

Next ==
    \/ CalculatePricing
    \/ BuildRules
    \/ GetTargetBreakevenOccupancy
    \/ IsSmartTargetEnabled
    \/ ValidateSmartTargetConfiguration
    \/ Return

Spec == Init /\ [][Next]_vars

---------------------------------------------------------------------------
(* Repeated calls of one calculator: a call of calculate_pricing, other     *)
(* calls on the same calculator whose outcomes the caller drops, and the   *)
(* same call once more while the first outcome is still held.              *)

\* The inputs of the repeated call: no seats or ten, no sold price or one.
RepeatedCalls ==
    { ld \in LocationDatas : /\ ld.total_po_seats \in {0, 10}
                             /\ ld.sold_price_per_po_seat_actual \in {None, Num(12500)} }

\* The inputs of the calls made in between.
OtherCalls ==
    { ld \in LocationDatas : /\ ld.avg_exp_total_po_expense_amount = Num(250000)
                             /\ ld.po_seats_occupied_actual_pct = Num(50)
                             /\ ld.total_po_seats = 10
                             /\ ld.sold_price_per_po_seat_actual = Num(12500) }

\* The first call.
CalculatePricingFirst ==
    /\ op = "idle"
    /\ \E ld \in RepeatedCalls :
         LET r == calculate_pricing(ld, config)
         IN  /\ location_data' = ld
             /\ raised' = r.raised
             /\ named' = r.named
             /\ result' = r.result
    /\ op' = "calculate_pricing"
    /\ UNCHANGED <<config, call_args, rules, target, enabled, parsingVars, pipelineVars, serviceVars>>

\* Another call of calculate_pricing; the caller notes the location and the
\* exception and drops the result.
CalculatePricingBetween ==
    /\ op = "calculate_pricing"
    /\ call_args = NoCallArgs
    /\ \E ld \in OtherCalls :
         LET r == calculate_pricing(ld, config)
         IN  /\ call_args' = [NoCallArgs EXCEPT !.location = ld.name]
             /\ named' = IF r.raised # NoError THEN r.named ELSE named
    /\ UNCHANGED <<config, op, location_data, raised, result, rules, target, enabled,
                   parsingVars, pipelineVars, serviceVars>>

\* The first call once more, on the same LocationData.
CalculatePricingAgain ==
    /\ op = "calculate_pricing"
    /\ LET r == calculate_pricing(location_data, config)
       IN  /\ raised' = r.raised
           /\ named' = r.named
           /\ result' = r.result
    /\ op' = "calculate_pricing_again"
    /\ UNCHANGED <<config, location_data, call_args, rules, target, enabled,
                   parsingVars, pipelineVars, serviceVars>>

NextRepeat ==
    \/ CalculatePricingFirst
    \/ CalculatePricingBetween
    \/ CalculatePricingAgain
    \/ Return

SpecRepeat == Init /\ [][NextRepeat]_vars

---------------------------------------------------------------------------
(* The parse functions as a state machine of their own: each call is made  *)
(* from the idle state on a value and an optional error context.           *)

\* Every string of up to MaxStrLen characters.
Strings == UNION { [1..n -> Alphabet] : n \in 0..MaxStrLen }

\* Numbers around the threshold 1.0 and on the 0-100 scale.
Numbers == { Rat(k, 10) : k \in -12..12 } \cup { Num(70), Num(75), Num(-50) }

ParseInputs == {PyNone} \cup { PyNum(x) : x \in Numbers } \cup { PyStr(cs) : cs \in Strings }

\* tests/test_error_handling.py: create_error_context("test_integration")
Contexts == {NoContext, create_error_context("test_integration")}

\* No call of the calculator or of rule resolution is in progress.
PricingIdle ==
    /\ location_data = NoLocationData
    /\ call_args = NoCallArgs
    /\ result = NoResult
    /\ rules = NoRules
    /\ target = NoTarget
    /\ named = ""
    /\ enabled = FALSE

InitParsing ==
    /\ config = EmptyDict
    /\ op = "idle"
    /\ raised = NoError
    /\ PricingIdle
    /\ ParsingIdle
    /\ PipelineIdle
    /\ ServiceIdle

ParseFloat ==
    /\ op = "idle"
    /\ \E v \in ParseInputs, a \in BOOLEAN, ctx \in Contexts :
         LET r == parse_float(v, a, ctx)
         IN  /\ val' = v
             /\ absolute' = a
             /\ context' = ctx
             /\ raised' = r.raised
             /\ parsed' = r.parsed
    /\ op' = "parse_float"
    /\ UNCHANGED <<config, pricingVars, pipelineVars, serviceVars>>

ParseInt ==
    /\ op = "idle"
    /\ \E v \in ParseInputs, ctx \in Contexts :
         LET r == parse_int(v, ctx)
         IN  /\ val' = v
             /\ context' = ctx
             /\ raised' = r.raised
             /\ parsed' = r.parsed
    /\ op' = "parse_int"
    /\ UNCHANGED <<config, absolute, pricingVars, pipelineVars, serviceVars>>

ParsePct ==
    /\ op = "idle"
    /\ \E v \in ParseInputs, ctx \in Contexts :
         LET r == parse_pct(v, ctx)
         IN  /\ val' = v
             /\ context' = ctx
             /\ raised' = r.raised
             /\ parsed' = r.parsed
    /\ op' = "parse_pct"
    /\ UNCHANGED <<config, absolute, pricingVars, pipelineVars, serviceVars>>

\* The caller takes the number, or handles the exception.
ReturnParsed ==
    /\ op \in {"parse_float", "parse_int", "parse_pct"}
    /\ op' = "idle"
    /\ raised' = NoError
    /\ val' = PyNone
    /\ absolute' = FALSE
    /\ context' = NoContext
    /\ parsed' = None
    /\ UNCHANGED <<config, pricingVars, pipelineVars, serviceVars>>

NextParsing ==
    \/ ParseFloat
    \/ ParseInt
    \/ ParsePct
    \/ ReturnParsed

SpecParsing == InitParsing /\ [][NextParsing]_vars

---------------------------------------------------------------------------
(* src/pricing/service.py: PricingService.run_pricing_pipeline on a given  *)
(* table, configuration and target month, with verbose = False.  A table   *)
(* is a sequence of rows; a cell is None, a number or a string (the cells  *)
(* of an object column); a building name is a sequence of characters.      *)

\* str.lower() on the letters of the modelled names.
lower(cs) ==
    LET LowerChar(c) ==
            CASE c = "A" -> "a" [] c = "B" -> "b" [] c = "C" -> "c" [] c = "H" -> "h"
              [] c = "O" -> "o" [] c = "L" -> "l" [] c = "D" -> "d" [] c = "I" -> "i"
              [] c = "N" -> "n" [] c = "G" -> "g" [] OTHER -> c
    IN  [i \in 1..Len(cs) |-> LowerChar(cs[i])]

\* round(x, ndigits)
RoundTo(x, ndigits) == Rat(round(Mul(x, Num(Pow10(ndigits)))), Pow10(ndigits))

RECURSIVE Sum(_)
Sum(xs) == IF xs = <<>> THEN Num(0) ELSE Add(Head(xs), Sum(Tail(xs)))

\* sum(xs) / len(xs)
Mean(xs) == Div(Sum(xs), Num(Len(xs)))

\* value in [None, "None", ""]
IsBlank(v) == v = PyNone \/ v = PyStr(<<"N", "o", "n", "e">>) \/ v = PyStr(<<>>)

\* value in [None, "None", "", "nan"]
IsBlankOrNan(v) == IsBlank(v) \/ v = PyStr(<<"n", "a", "n">>)

\* A step that raised e, or that returned x.
Raised(e) == [raised |-> e, parsed |-> None]
Returned(x) == [raised |-> NoError, parsed |-> x]

\* safe_parse(parse_pct, v, data_type, context) with an ErrorContext: parse_pct
\* is called without a context of its own.
safe_parse_pct(v, ctx) ==
    LET Outcome(r) == IF r.raised = NoError THEN Converted(r.parsed) ELSE ConversionError
    IN  safe_parse(Outcome(parse_pct(v, NoContext)), ctx, None)

\* _get_occupancy_with_fallback: the first of the three columns that is not None.
_get_occupancy_with_fallback(row, ctx) ==
    LET Parsed(v) == IF v = PyNone THEN Returned(None) ELSE safe_parse_pct(v, ctx)
    IN  Parsed(IF row.po_seats_occupied_actual_pct # PyNone
               THEN row.po_seats_occupied_actual_pct
               ELSE IF row.po_seats_actual_occupied_pct # PyNone
               THEN row.po_seats_actual_occupied_pct
               ELSE row.po_seats_occupied_pct)

\* The parse results of a sequence of cells; the first exception ends the loop.
RECURSIVE ParseAll(_, _)
ParseAll(rs, i) ==
    IF i > Len(rs) THEN [raised |-> NoError, parsed |-> <<>>]
    ELSE IF rs[i].raised # NoError THEN [raised |-> rs[i].raised, parsed |-> <<>>]
    ELSE LET rest == ParseAll(rs, i + 1)
         IN  IF rest.raised # NoError THEN rest
             ELSE [raised |-> NoError, parsed |-> <<rs[i].parsed>> \o rest.parsed]

\* Lines 244-309: the occupancy of the location, None when there is none.
select_occupancy(df, row, loc) ==
    LET ctx == create_error_context("calculate_occupancy")
        Rounded(r) == IF r.raised # NoError \/ IsNone(r.parsed) THEN r
                      ELSE Returned(RoundTo(r.parsed, 1))
        Averaged(daily) == IF daily.raised # NoError THEN Raised(daily.raised)
                           ELSE Returned(RoundTo(Mean(daily.parsed), 1))
        Selected(location_daily_data) ==
            IF location_daily_data # <<>>
            THEN Averaged(ParseAll([j \in 1..Len(location_daily_data) |->
                     safe_parse_pct(location_daily_data[j].po_seats_occupied_actual_pct, ctx)], 1))
            ELSE Rounded(_get_occupancy_with_fallback(row, ctx))
    IN  Selected(SelectSeq(df, LAMBDA r : /\ strip(r.building_name) = loc
                                         /\ r.po_seats_occupied_actual_pct # PyNone))

\* Lines 311-331: the average of the absolute expenses of the location's rows of
\* the target year whose month is target_month - 2, target_month - 1 or
\* target_month; the current row's absolute expense when there is no such row.
average_expense(df, row, loc, ty, tm) ==
    LET Current(r) == IF r.raised # NoError THEN r ELSE Returned(abs(r.parsed))
        Averaged(expenses) ==
            IF expenses.raised # NoError THEN Raised(expenses.raised)
            ELSE Returned(Mean([j \in 1..Len(expenses.parsed) |-> abs(expenses.parsed[j])]))
        Selected(location_monthly_data) ==
            IF location_monthly_data = <<>>
            THEN Current(parse_float(row.exp_total_po_expense_amount, FALSE, NoContext))
            ELSE Averaged(ParseAll([j \in 1..Len(location_monthly_data) |->
                     parse_float(location_monthly_data[j].exp_total_po_expense_amount,
                                 FALSE, NoContext)], 1))
    IN  Selected(SelectSeq(df, LAMBDA r : /\ strip(r.building_name) = loc
                                         /\ r.year = ty
                                         /\ r.month \in {tm - 2, tm - 1, tm}))

\* The values the published-price query may return on a table: None when no row
\* of the building has year_from/month_from at or before and year_to/month_to at
\* or after the month; otherwise the price of the first row in the order
\* year_from DESC, month_from DESC (LIMIT 1).  Rows that tie in that order come
\* in an order SQL leaves open, so each of them may be the one returned.
get_published_price(table, building_name, year, month) ==
    LET Selected == { r \in table :
                        /\ r.building_name = building_name
                        /\ (r.year_from < year \/ (r.year_from = year /\ r.month_from <= month))
                        /\ (r.year_to > year \/ (r.year_to = year /\ r.month_to >= month)) }
        First == { r \in Selected :
                     \A s \in Selected :
                        \/ s.year_from < r.year_from
                        \/ (s.year_from = r.year_from /\ s.month_from <= r.month_from) }
    IN  IF Selected = {} THEN {None} ELSE { r.price : r \in First }

\* Lines 386-406: the PricingCLIOutput built from the LocationData and the result.
PricingCLIOutput(ld, pricing_result) ==
    [building_name |-> ld.name,
     occupancy_pct |-> RoundTo(ld.po_seats_occupied_actual_pct, 2),
     target_breakeven_occupancy_pct |-> RoundTo(pricing_result.target_breakeven_occupancy_pct, 2),
     actual_breakeven_occupancy_pct |->
         IF IsNone(pricing_result.actual_breakeven_occupancy_pct) THEN None
         ELSE RoundTo(pricing_result.actual_breakeven_occupancy_pct, 2),
     dynamic_multiplier |-> pricing_result.dynamic_multiplier,
     recommended_price |-> pricing_result.final_price,
     losing_money |-> pricing_result.losing_money,
     published_price |-> ld.published_price,
     breakeven_price |-> pricing_result.breakeven_price,
     sold_price_per_po_seat_actual |-> ld.sold_price_per_po_seat_actual,
     is_smart_target |-> pricing_result.is_smart_target]

\* The outcomes of the loop body for one row.
Skip == [kind |-> "continue", raised |-> NoError, location_data |-> NoLocationData, output |-> <<>>]
Abort(e) == [kind |-> "raise", raised |-> e, location_data |-> NoLocationData, output |-> <<>>]

\* Lines 231-385: the checks of the loop body on the parsed cells of the row, in
\* the order the code makes them; the LocationData when all of them pass.
LoopInputs(loc, ty, tm, total_po_seats, occupancy_pct, avg_exp, exp_total, occupied_pct, sold_price) ==
    IF total_po_seats.raised # NoError THEN Abort(total_po_seats.raised)
    ELSE IF loc = <<>> THEN Skip
    ELSE IF lower(strip(loc)) = <<"h", "o", "l", "d", "i", "n", "g">> THEN Skip
    ELSE IF total_po_seats.parsed = Num(0) THEN Skip
    ELSE IF occupancy_pct.raised # NoError THEN Abort(occupancy_pct.raised)
    ELSE IF IsNone(occupancy_pct.parsed) THEN Skip
    ELSE IF avg_exp.raised # NoError THEN Abort(avg_exp.raised)
    ELSE IF exp_total.raised # NoError THEN Abort(exp_total.raised)
    ELSE IF occupied_pct.raised # NoError THEN Abort(occupied_pct.raised)
    ELSE IF sold_price.raised # NoError THEN Abort(sold_price.raised)
    ELSE [kind |-> "calculate", raised |-> NoError, output |-> <<>>,
          location_data |->
              [name |-> loc,
               exp_total_po_expense_amount |-> exp_total.parsed,
               avg_exp_total_po_expense_amount |-> avg_exp.parsed,
               po_seats_occupied_actual_pct |-> occupancy_pct.parsed,
               po_seats_occupied_pct |-> occupied_pct.parsed,
               total_po_seats |-> total_po_seats.parsed[1],
               published_price |-> CHOOSE price \in get_published_price(published_prices, loc, ty, tm) : TRUE,
               sold_price_per_po_seat_actual |-> sold_price.parsed]]

\* Lines 388-407, under error_boundary(reraise = False): an exception of
\* calculate_pricing is logged and dropped ("swallowed"); a result is appended.
error_boundary(ld, pricing_result) ==
    IF pricing_result.raised # NoError
    THEN [kind |-> "swallowed", raised |-> pricing_result.raised,
          location_data |-> ld, output |-> <<>>]
    ELSE [kind |-> "output", raised |-> NoError, location_data |-> ld,
          output |-> <<PricingCLIOutput(ld, pricing_result.result)>>]

\* The calculator is called once the inputs of the location are complete.
PriceLocation(inputs, cfg) ==
    IF inputs.kind # "calculate" THEN inputs
    ELSE error_boundary(inputs.location_data, calculate_pricing(inputs.location_data, cfg))

\* Lines 231-407: the loop body for the first row of location loc.  "raise" is an
\* exception that leaves the loop; "continue" skips the location.
process_location(df, cfg, ty, tm, row, loc) ==
    PriceLocation(
        LoopInputs(loc, ty, tm,
                   IF IsBlankOrNan(row.total_po_seats) THEN Returned(Num(0))
                   ELSE parse_int(row.total_po_seats, NoContext),
                   select_occupancy(df, row, loc),
                   average_expense(df, row, loc, ty, tm),
                   parse_float(row.exp_total_po_expense_amount, TRUE, NoContext),
                   IF IsBlank(row.po_seats_occupied_pct) THEN Returned(None)
                   ELSE parse_pct(row.po_seats_occupied_pct, NoContext),
                   IF IsBlank(row.sold_price_per_po_seat_actual) THEN Returned(None)
                   ELSE parse_float(row.sold_price_per_po_seat_actual, FALSE, NoContext)),
        cfg)

\* The state of the loop: processed_locations, outputs, the calculator calls made
\* and the exception that left the loop.
LoopStart == [processed_locations |-> {}, outputs |-> <<>>, calls |-> <<>>, raised |-> NoError]

\* The state after the name has been added to processed_locations and the loop
\* body has run on the location.
AfterLocation(acc, loc, step) ==
    [acc EXCEPT !.processed_locations = @ \cup {loc},
                !.outputs = @ \o step.output,
                !.calls = IF step.kind \in {"swallowed", "output"}
                          THEN Append(@, step.location_data) ELSE @,
                !.raised = IF step.kind = "raise" THEN step.raised ELSE NoError]

\* Mutant: a name is marked as processed only once its row has passed the checks
\* on the name and the seat count.
RECURSIVE ProcessRowsMarkingLate(_, _, _, _, _, _)
ProcessRowsMarkingLate(df, cfg, ty, tm, i, acc) ==
    LET MarkedLate(loc, step) ==
            IF step.kind = "continue" THEN acc ELSE AfterLocation(acc, loc, step)
        NextRow(next) ==
            IF next.raised # NoError THEN next
            ELSE ProcessRowsMarkingLate(df, cfg, ty, tm, i + 1, next)
    IN  IF i > Len(df) THEN acc
        ELSE IF strip(df[i].building_name) \in acc.processed_locations
        THEN ProcessRowsMarkingLate(df, cfg, ty, tm, i + 1, acc)
        ELSE NextRow(MarkedLate(strip(df[i].building_name),
                 process_location(df, cfg, ty, tm, df[i], strip(df[i].building_name))))

\* Lines 223-407: for _, row in input_df.iterrows(), from row i on; the loop ends
\* at the first exception that leaves its body.
RECURSIVE ProcessRows(_, _, _, _, _, _)
ProcessRows(df, cfg, ty, tm, i, acc) ==
    LET NextRow(next) ==
            IF next.raised # NoError THEN next
            ELSE ProcessRows(df, cfg, ty, tm, i + 1, next)
    IN  IF i > Len(df) THEN acc
        ELSE IF strip(df[i].building_name) \in acc.processed_locations
        THEN ProcessRows(df, cfg, ty, tm, i + 1, acc)
        ELSE NextRow(AfterLocation(acc, strip(df[i].building_name),
                 process_location(df, cfg, ty, tm, df[i], strip(df[i].building_name))))

\* The handle_errors decorator of run_pricing_pipeline (reraise = False,
\* default_return = []): an exception that left the loop is logged and the empty
\* default is returned in place of the outputs collected so far.
handle_errors(acc) ==
    IF acc.raised # NoError THEN [outputs |-> <<>>, calls |-> acc.calls]
    ELSE [outputs |-> acc.outputs, calls |-> acc.calls]

run_pricing_pipeline(df, cfg, ty, tm) ==
    IF df = <<>> THEN [outputs |-> <<>>, calls |-> <<>>]
    ELSE handle_errors(ProcessRows(df, cfg, ty, tm, 1, LoopStart))

---------------------------------------------------------------------------
(* The REST endpoints GET /api/v1/pricing and GET /api/v1/pricing/{location} *)
(* (src/api/pricing_router.py, src/app.py) over PricingService.             *)

\* An exception of the data loader or of the configuration loader.
ErrService == "Exception: the data or the configuration could not be loaded"

\* HTTPException(status_code=404)
ErrNotFound == "HTTPException: 404"

\* PricingService.get_pricing_for_all_locations on the loaded table df: the
\* list of the run, or the exception of a loader.
get_pricing_for_all_locations(df, cfg, ty, tm, loader_fails) ==
    IF loader_fails THEN [raised |-> ErrService, results |-> <<>>]
    ELSE IF df = <<>> THEN [raised |-> NoError, results |-> <<>>]
    ELSE [raised |-> NoError, results |-> run_pricing_pipeline(df, cfg, ty, tm).outputs]

\* PricingService.get_pricing_for_location: the loader keeps the rows of the
\* location (names compared in lower case); the result is outputs[0], or None,
\* here the empty list.
get_pricing_for_location(location, df, cfg, ty, tm, loader_fails) ==
    LET First(r) == [r EXCEPT !.results = IF @ = <<>> THEN <<>> ELSE <<Head(@)>>]
    IN  First(get_pricing_for_all_locations(
                  SelectSeq(df, LAMBDA r : lower(r.building_name) = lower(location)),
                  cfg, ty, tm, loader_fails))

\* The body of either endpoint, given what the service call came to: the try
\* block raises HTTPException(404) on an empty result, and the handler
\* `except Exception` catches every exception of the block, HTTPException
\* (a subclass of Exception) included, and raises HTTPException(500).
pricing_endpoint(service) ==
    LET TryBlock(s) == IF s.raised # NoError THEN s
                       ELSE IF s.results = <<>> THEN [s EXCEPT !.raised = ErrNotFound]
                       ELSE s
        ExceptException(t) == IF t.raised # NoError THEN [status_code |-> 500, body |-> <<>>]
                              ELSE [status_code |-> 200, body |-> t.results]
    IN  ExceptException(TryBlock(service))

---------------------------------------------------------------------------
(* Bounds of the tables.                                                   *)

MaxRows == 3            \* a table has up to MaxRows rows

---------------------------------------------------------------------------
(* Tables and configurations of the pipeline runs.                         *)

NameA == <<"A">>
NameB == <<"B">>
NameC == <<"C">>

\* tests/test_pricing_pipeline.py mock_config, with use_smart_target set for
\* locations A and B; location C is not configured.
PipelineConfigs ==
    { ("margin_of_safety" :> Rat(1, 2))
      @@ ("dynamic_pricing_tiers" :> <<Tier(Num(0), Num(100), Num(1))>>)
      @@ ("locations" :>
            ( (NameA :> (Bounds(Num(0), Num(2900000)) @@ Target(Num(50)) @@ Smart(FALSE)))
              @@ (NameB :> Smart(TRUE)) )) }

Row(name, seats, daily, monthly, year, month, expense) ==
    [building_name |-> name, total_po_seats |-> seats,
     po_seats_occupied_actual_pct |-> daily,
     po_seats_actual_occupied_pct |-> monthly,
     po_seats_occupied_pct |-> PyNone,
     year |-> year, month |-> month,
     exp_total_po_expense_amount |-> expense,
     sold_price_per_po_seat_actual |-> PyNone]

\* The rows a table is made of: two configured locations over several months,
\* names with blanks around them, cells that are numbers, text or empty.
Rows ==
    { Row(NameA, PyNum(Num(10)), PyNum(Num(80)), PyNone, 2025, 7, PyNum(Num(-1000000))),
      Row(NameA, PyNum(Num(10)), PyStr(<<"7", "0", "%">>), PyNone, 2025, 6, PyNum(Num(500000))),
      Row(NameA, PyNum(Num(10)), PyStr(<<"x">>), PyNone, 2025, 5, PyNum(Num(1500000))),
      Row(<<" ", "A", " ">>, PyNum(Num(0)), PyNone, PyNum(Num(80)), 2025, 4, PyNum(Num(250000))),
      Row(NameA, PyNum(Num(10)), PyNum(Num(40)), PyNone, 2025, 7, PyStr(<<"x">>)),
      Row(NameB, PyNum(Num(100)), PyNum(Rat(1, 2)), PyNone, 2024, 12, PyNum(Num(2000000))),
      Row(NameB, PyStr(<<"x">>), PyNum(Num(60)), PyNone, 2025, 1, PyNum(Num(1000000))),
      Row(NameB, PyStr(<<"5", "0">>), PyNone, PyStr(<<"7", "5", "%">>), 2025, 7,
          PyStr(<<"5", "0", "0", ",", "0", "0", "0">>)),
      Row(NameB, PyNum(Num(100)), PyNone, PyNone, 2025, 6, PyNum(Num(750000))),
      Row(<<"H", "o", "l", "d", "i", "n", "g">>, PyNum(Num(10)), PyNum(Num(50)), PyNone, 2025, 7,
          PyNum(Num(1000000))),
      Row(NameC, PyNum(Num(10)), PyNum(Num(50)), PyNone, 2025, 7, PyNum(Num(1000000))) }

Tables == UNION { [1..n -> Rows] : n \in 0..MaxRows }

\* (target_year, target_month)
Targets == { <<2025, 7>>, <<2025, 1>> }

---------------------------------------------------------------------------
(* The pipeline as a state machine: a run is made from the idle state on a *)
(* table and a target month; its list is held until the caller drops it.   *)

InitPipeline ==
    /\ config \in PipelineConfigs
    /\ op = "idle"
    /\ raised = NoError
    /\ PricingIdle
    /\ ParsingIdle
    /\ PipelineIdle
    /\ ServiceIdle

RunPricingPipeline ==
    /\ op = "idle"
    /\ \E df \in Tables, t \in Targets :
         LET r == run_pricing_pipeline(df, config, t[1], t[2])
         IN  /\ input_df' = df
             /\ target_year' = t[1]
             /\ target_month' = t[2]
             /\ outputs' = r.outputs
             /\ calculator_calls' = r.calls
    /\ op' = "run_pricing_pipeline"
    /\ UNCHANGED <<config, raised, pricingVars, parsingVars, serviceVars>>

\* The caller takes the list.
ReturnOutputs ==
    /\ op = "run_pricing_pipeline"
    /\ op' = "idle"
    /\ input_df' = <<>>
    /\ target_year' = 0
    /\ target_month' = 0
    /\ outputs' = <<>>
    /\ calculator_calls' = <<>>
    /\ UNCHANGED <<config, raised, pricingVars, parsingVars, serviceVars>>

\* GET /api/v1/pricing
GetPricingForAllLocations ==
    /\ op = "idle"
    /\ \E df \in Tables, t \in Targets, loader_fails \in BOOLEAN :
         /\ input_df' = df
         /\ target_year' = t[1]
         /\ target_month' = t[2]
         /\ raised' = get_pricing_for_all_locations(df, config, t[1], t[2], loader_fails).raised
         /\ response' = pricing_endpoint(
                            get_pricing_for_all_locations(df, config, t[1], t[2], loader_fails))
    /\ op' = "get_pricing_for_all_locations"
    /\ UNCHANGED <<config, pricingVars, parsingVars, outputs, calculator_calls, storageVars>>

\* GET /api/v1/pricing/{location}
GetPricingForLocation ==
    /\ op = "idle"
    /\ \E df \in Tables, t \in Targets, loader_fails \in BOOLEAN, location \in {NameA, NameB} :
         /\ input_df' = df
         /\ target_year' = t[1]
         /\ target_month' = t[2]
         /\ call_args' = [NoCallArgs EXCEPT !.location = location]
         /\ raised' = get_pricing_for_location(location, df, config, t[1], t[2], loader_fails).raised
         /\ response' = pricing_endpoint(
                            get_pricing_for_location(location, df, config, t[1], t[2], loader_fails))
    /\ op' = "get_pricing_for_location"
    /\ UNCHANGED <<config, location_data, result, rules, target, named, enabled,
                   parsingVars, outputs, calculator_calls, storageVars>>

\* The response is sent.
ReturnResponse ==
    /\ op \in {"get_pricing_for_all_locations", "get_pricing_for_location"}
    /\ op' = "idle"
    /\ raised' = NoError
    /\ input_df' = <<>>
    /\ target_year' = 0
    /\ target_month' = 0
    /\ call_args' = NoCallArgs
    /\ response' = NoResponse
    /\ UNCHANGED <<config, location_data, result, rules, target, named, enabled,
                   parsingVars, outputs, calculator_calls, storageVars>>

NextPipeline ==
    \/ RunPricingPipeline
    \/ ReturnOutputs
    \/ GetPricingForAllLocations
    \/ GetPricingForLocation
    \/ ReturnResponse

SpecPipeline == InitPipeline /\ [][NextPipeline]_vars

---------------------------------------------------------------------------
(* The published_prices table of src/sqlite_storage.py.  A row is modelled *)
(* by the columns the lookup reads; the table is the set of its rows (the  *)
(* id column tells rows apart and nothing reads it).  The database file is *)
(* outside the program: its published_prices table has either the columns  *)
(* the repository's initialiser creates, or those and the three further    *)
(* columns the INSERT of save_published_price names.                       *)

InsertColumns ==
    {"building_name", "year_from", "month_from", "year_to", "month_to", "price",
     "published_by", "published_at", "reason"}

PublishedPrice(building_name, year_from, month_from, year_to, month_to, price) ==
    [building_name |-> building_name, year_from |-> year_from, month_from |-> month_from,
     year_to |-> year_to, month_to |-> month_to, price |-> price]

ErrOperational == "OperationalError"

\* The DELETE of the rows with the record's building and range, then the INSERT.
\* An INSERT that names a column the table lacks raises sqlite3.OperationalError;
\* the connection's context manager then rolls the DELETE back.
save_published_price(table, cols, published_price) ==
    LET Deleted == { r \in table :
                       ~ /\ r.building_name = published_price.building_name
                         /\ r.year_from = published_price.year_from
                         /\ r.month_from = published_price.month_from
                         /\ r.year_to = published_price.year_to
                         /\ r.month_to = published_price.month_to }
    IN  IF InsertColumns \subseteq cols
        THEN [raised |-> NoError, table |-> Deleted \cup {published_price}]
        ELSE [raised |-> ErrOperational, table |-> table]

\* Validity ranges: a calendar year, a longer range that starts later, a
\* shorter range with the same start, and a range across the turn of the year.
Ranges == { <<2025, 1, 2025, 12>>, <<2025, 3, 2026, 12>>,
            <<2025, 1, 2025, 2>>, <<2024, 11, 2025, 1>> }

Prices == { Num(100), Num(200) }

PublishedPrices ==
    { PublishedPrice(b, r[1], r[2], r[3], r[4], p) : b \in {NameA, NameB}, r \in Ranges, p \in Prices }

\* The months looked up.
Months == { <<2024, 10>>, <<2024, 12>>, <<2025, 1>>, <<2025, 2>>, <<2025, 5>>,
            <<2026, 1>>, <<2026, 12>>, <<2027, 1>> }

InitPublished ==
    /\ config = EmptyDict          \* the storage reads no configuration
    /\ op = "idle"
    /\ raised = NoError
    /\ PricingIdle
    /\ ParsingIdle
    /\ PipelineIdle
    /\ response = NoResponse
    /\ columns \in { SchemaColumns, SchemaColumns \cup InsertColumns }
    /\ published_prices = {}
    /\ pnl_sms_by_month = <<>>
    /\ storage_args = NoStorageArgs
    /\ storage_return = None
    /\ year_cursor = 0
    /\ month_cursor = 0
    /\ ym = <<>>

SavePublishedPrice ==
    /\ op = "idle"
    /\ \E published_price \in PublishedPrices :
         /\ storage_args' = published_price
         /\ published_prices' = save_published_price(published_prices, columns, published_price).table
         /\ raised' = save_published_price(published_prices, columns, published_price).raised
    /\ op' = "save_published_price"
    /\ UNCHANGED <<config, pricingVars, parsingVars, pipelineVars, response, columns,
                   pnl_sms_by_month, storage_return, year_cursor, month_cursor, ym>>

GetPublishedPrice ==
    /\ op = "idle"
    /\ \E building_name \in {NameA, NameB}, month \in Months :
         /\ storage_args' = [building_name |-> building_name, year |-> month[1], month |-> month[2]]
         /\ storage_return' \in get_published_price(published_prices, building_name, month[1], month[2])
    /\ op' = "get_published_price"
    /\ UNCHANGED <<config, raised, pricingVars, parsingVars, pipelineVars, response, columns,
                   published_prices, pnl_sms_by_month, year_cursor, month_cursor, ym>>

\* The caller takes the outcome of the storage call.
ReturnStorage ==
    /\ op \in {"save_published_price", "get_published_price"}
    /\ op' = "idle"
    /\ raised' = NoError
    /\ storage_args' = NoStorageArgs
    /\ storage_return' = None
    /\ UNCHANGED <<config, pricingVars, parsingVars, pipelineVars, response, columns,
                   published_prices, pnl_sms_by_month, year_cursor, month_cursor, ym>>

NextPublished ==
    \/ SavePublishedPrice
    \/ GetPublishedPrice
    \/ ReturnStorage

SpecPublished == InitPublished /\ [][NextPublished]_vars

---------------------------------------------------------------------------
(* The pnl_sms_by_month table: its reload from Zoho                        *)
(* (src/zoho_integration.py, src/sqlite_storage.py) and the loader's       *)
(* three-month window (src/data/loader.py).  A row is modelled by its      *)
(* building, year, month and expense; the table is the sequence of its     *)
(* rows in insertion order.                                                *)

MaxMonths == 6          \* the month enumeration is followed for up to MaxMonths iterations

PnlSmsByMonthRow(building_name, year, month, amount) ==
    [building_name |-> building_name, year |-> year, month |-> month,
     exp_total_po_expense_amount |-> amount]

\* df.to_sql(table_name, conn, if_exists=if_exists): "replace" drops the table
\* and creates it from the rows, "append" adds the rows; no rows, no write.
save_to_sqlite(table, rows, if_exists) ==
    IF rows = <<>> THEN table
    ELSE IF if_exists = "replace" THEN rows
    ELSE table \o rows

\* DELETE FROM table WHERE year = ? AND month = ?
delete_from_sqlite_by_year_month(table, year, month) ==
    SelectSeq(table, LAMBDA r : ~(r.year = year /\ r.month = month))

\* The condition of the while loop that builds ym.
InRange(year, month, end_year, end_month) ==
    (year < end_year) \/ (year = end_year /\ month <= end_month)

\* Lines 74-79: one DELETE per pair of ym, in order.
RECURSIVE delete_each(_, _)
delete_each(table, pairs) ==
    IF pairs = <<>> THEN table
    ELSE delete_each(delete_from_sqlite_by_year_month(table, Head(pairs)[1], Head(pairs)[2]),
                     Tail(pairs))

\* Lines 151-156: each month's fetched rows are appended, in the order of ym.
RECURSIVE append_each(_, _)
append_each(table, fetched) ==
    IF fetched = <<>> THEN table
    ELSE append_each(save_to_sqlite(table, Head(fetched), "append"), Tail(fetched))

\* The rows Zoho may return for the criteria "year"=year and "month"=month.
Fetched(year, month) ==
    { <<>>,
      <<PnlSmsByMonthRow(NameA, year, month, Num(100))>>,
      <<PnlSmsByMonthRow(NameA, year, month, Num(200)),
        PnlSmsByMonthRow(NameB, year, month, Num(100))>> }

clear_and_reload_pnl_sms_by_month(table, year, month, rows) ==
    [table |-> save_to_sqlite(delete_from_sqlite_by_year_month(table, year, month), rows, "replace"),
     returned |-> Num(Len(rows))]

\* datetime(year, month, 1) - timedelta(days): the year and month of the day that
\* lies that many days before the first of the month.
IsLeap(year) == year % 4 = 0 /\ (year % 100 # 0 \/ year % 400 = 0)

DaysInMonth(year, month) ==
    IF month = 2 THEN (IF IsLeap(year) THEN 29 ELSE 28)
    ELSE IF month \in {4, 6, 9, 11} THEN 30 ELSE 31

RECURSIVE MonthOfDayBefore(_, _, _)
MonthOfDayBefore(year, month, days) ==
    LET previous == IF month = 1 THEN <<year - 1, 12>> ELSE <<year, month - 1>>
    IN  IF days = 0 THEN <<year, month>>
        ELSE IF days <= DaysInMonth(previous[1], previous[2]) THEN previous
        ELSE MonthOfDayBefore(previous[1], previous[2],
                              days - DaysInMonth(previous[1], previous[2]))

load_monthly_expense_data(table, ty, tm, location) ==
    LET Filtered(start_year, start_month) ==
            SelectSeq(table, LAMBDA r :
                \/ (r.year = ty /\ r.month >= start_month)
                \/ (r.year = start_year /\ r.month >= start_month))
        Located(monthly_df) ==
            IF location # <<>>
            THEN SelectSeq(monthly_df, LAMBDA r : lower(r.building_name) = lower(location))
            ELSE monthly_df
        Window(three_months_ago) == Located(Filtered(three_months_ago[1], three_months_ago[2]))
    IN  Window(MonthOfDayBefore(ty, tm, 90))

\* Rows of the months around the turn of 2024/2025 and of the summer of 2025.
StoredMonths == { <<2024, 10>>, <<2024, 12>>, <<2025, 1>>, <<2025, 4>>, <<2025, 12>> }

StoredRows == { PnlSmsByMonthRow(NameA, s[1], s[2], Num(100)) : s \in StoredMonths }

StoredTables == UNION { [1..n -> StoredRows] : n \in 0..2 }

\* The months reloaded, and the first and last month of the ranges reloaded.
ReloadStarts == { <<2024, 12>>, <<2024, 13>>, <<2025, 1>>, <<2025, 2>> }
ReloadEnds == { <<2024, 12>>, <<2025, 1>>, <<2025, 2>> }

\* The target months of the loader and the location it filters by (<<>>: none).
LoaderTargets == { <<2025, 1>>, <<2025, 3>>, <<2025, 5>>, <<2025, 7>> }
LoaderLocations == { <<>>, <<"a">> }

InitReload ==
    /\ config = EmptyDict          \* the storage reads no configuration
    /\ op = "idle"
    /\ raised = NoError
    /\ PricingIdle
    /\ ParsingIdle
    /\ PipelineIdle
    /\ response = NoResponse
    /\ columns = SchemaColumns
    /\ published_prices = {}
    /\ pnl_sms_by_month \in StoredTables
    /\ storage_args = NoStorageArgs
    /\ storage_return = None
    /\ year_cursor = 0
    /\ month_cursor = 0
    /\ ym = <<>>

ClearAndReloadPnlSmsByMonth ==
    /\ op = "idle"
    /\ \E month \in ReloadEnds :
         \E rows \in Fetched(month[1], month[2]) :
            /\ storage_args' = [year |-> month[1], month |-> month[2], rows |-> <<rows>>]
            /\ pnl_sms_by_month' =
                   clear_and_reload_pnl_sms_by_month(pnl_sms_by_month, month[1], month[2], rows).table
            /\ storage_return' =
                   clear_and_reload_pnl_sms_by_month(pnl_sms_by_month, month[1], month[2], rows).returned
    /\ op' = "clear_and_reload_pnl_sms_by_month"
    /\ UNCHANGED <<config, raised, pricingVars, parsingVars, pipelineVars, response, columns,
                   published_prices, year_cursor, month_cursor, ym>>

\* clear_and_reload_pnl_sms_by_month_range is called: delete_from_sqlite_by_range
\* starts to build its list of months.
ClearAndReloadPnlSmsByMonthRange ==
    /\ op = "idle"
    /\ \E start \in ReloadStarts, end \in ReloadEnds :
         /\ storage_args' = [start_year |-> start[1], start_month |-> start[2],
                             end_year |-> end[1], end_month |-> end[2], rows |-> <<>>]
         /\ year_cursor' = start[1]
         /\ month_cursor' = start[2]
    /\ ym' = <<>>
    /\ op' = "delete_from_sqlite_by_range"
    /\ UNCHANGED <<config, raised, pricingVars, parsingVars, pipelineVars, response, columns,
                   published_prices, pnl_sms_by_month, storage_return>>

\* One iteration of `while (y < end_year) or (y == end_year and m <= end_month)`,
\* in delete_from_sqlite_by_range and again in clear_and_reload_pnl_sms_by_month_range.
AppendMonth ==
    /\ op \in {"delete_from_sqlite_by_range", "clear_and_reload_pnl_sms_by_month_range"}
    /\ InRange(year_cursor, month_cursor, storage_args.end_year, storage_args.end_month)
    /\ Len(ym) < MaxMonths
    /\ ym' = Append(ym, <<year_cursor, month_cursor>>)
    /\ year_cursor' = IF month_cursor = 12 THEN year_cursor + 1 ELSE year_cursor
    /\ month_cursor' = IF month_cursor = 12 THEN 1 ELSE month_cursor + 1
    /\ UNCHANGED <<config, op, raised, pricingVars, parsingVars, pipelineVars, response, columns,
                   published_prices, pnl_sms_by_month, storage_args, storage_return>>

\* The loop of delete_from_sqlite_by_range has ended: the months of ym are
\* deleted, and clear_and_reload_pnl_sms_by_month_range builds its own list.
DeleteFromSqliteByRange ==
    /\ op = "delete_from_sqlite_by_range"
    /\ ~InRange(year_cursor, month_cursor, storage_args.end_year, storage_args.end_month)
    /\ pnl_sms_by_month' = delete_each(pnl_sms_by_month, ym)
    /\ year_cursor' = storage_args.start_year
    /\ month_cursor' = storage_args.start_month
    /\ ym' = <<>>
    /\ op' = "clear_and_reload_pnl_sms_by_month_range"
    /\ UNCHANGED <<config, raised, pricingVars, parsingVars, pipelineVars, response, columns,
                   published_prices, storage_args, storage_return>>

\* The second loop has ended: each month of ym is fetched and its rows appended.
ReloadMonths ==
    /\ op = "clear_and_reload_pnl_sms_by_month_range"
    /\ ~InRange(year_cursor, month_cursor, storage_args.end_year, storage_args.end_month)
    /\ \E fetched \in [1..Len(ym) -> UNION { Fetched(s[1], s[2]) : s \in ReloadStarts \cup ReloadEnds }] :
         /\ \A i \in 1..Len(ym) : fetched[i] \in Fetched(ym[i][1], ym[i][2])
         /\ storage_args' = [storage_args EXCEPT !.rows = fetched]
         /\ pnl_sms_by_month' = append_each(pnl_sms_by_month, fetched)
         /\ storage_return' = Num(Len(append_each(<<>>, fetched)))
    /\ op' = "reloaded"
    /\ UNCHANGED <<config, raised, pricingVars, parsingVars, pipelineVars, response, columns,
                   published_prices, year_cursor, month_cursor, ym>>

LoadMonthlyExpenseData ==
    /\ op = "idle"
    /\ \E t \in LoaderTargets, location \in LoaderLocations :
         /\ storage_args' = [target_year |-> t[1], target_month |-> t[2], location |-> location]
         /\ storage_return' = load_monthly_expense_data(pnl_sms_by_month, t[1], t[2], location)
    /\ op' = "load_monthly_expense_data"
    /\ UNCHANGED <<config, raised, pricingVars, parsingVars, pipelineVars, response, columns,
                   published_prices, pnl_sms_by_month, year_cursor, month_cursor, ym>>

\* The caller takes what the call returned.
ReturnReloaded ==
    /\ op \in {"clear_and_reload_pnl_sms_by_month", "reloaded", "load_monthly_expense_data"}
    /\ op' = "idle"
    /\ storage_args' = NoStorageArgs
    /\ storage_return' = None
    /\ year_cursor' = 0
    /\ month_cursor' = 0
    /\ ym' = <<>>
    /\ UNCHANGED <<config, raised, pricingVars, parsingVars, pipelineVars, response, columns,
                   published_prices, pnl_sms_by_month>>

NextReload ==
    \/ ClearAndReloadPnlSmsByMonth
    \/ ClearAndReloadPnlSmsByMonthRange
    \/ AppendMonth
    \/ DeleteFromSqliteByRange
    \/ ReloadMonths
    \/ LoadMonthlyExpenseData
    \/ ReturnReloaded

SpecReload == InitReload /\ [][NextReload]_vars

\* The interpreter runs a loop that can take a step.
SpecReloadFair == SpecReload /\ WF_vars(AppendMonth) /\ WF_vars(DeleteFromSqliteByRange)

---------------------------------------------------------------------------
(* Vocabulary of the properties.                                           *)

\* calculate_pricing has returned a PricingResult.
Priced == op = "calculate_pricing" /\ raised = NoError

\* An input as the data pipeline supplies it: seats and expense not negative.
OrdinaryInput ==
    /\ location_data.total_po_seats > 0
    /\ Le(Num(0), location_data.avg_exp_total_po_expense_amount)

\* The location's section of the configuration, and the bounds it sets.
Overrides == LocCfg(location_data.name, config)
ConfiguredMin == Get(Overrides, "min_price", None)
ConfiguredMax == Get(Overrides, "max_price", None)
ConfiguredMargin ==
    IF Has(Overrides, "margin_of_safety") THEN Overrides["margin_of_safety"]
    ELSE IF Has(config, "margin_of_safety") THEN config["margin_of_safety"]
    ELSE Rat(1, 2)
ConfiguredTiers == IF Has(config, "dynamic_pricing_tiers") THEN config["dynamic_pricing_tiers"] ELSE <<>>

\* avg_expense / (total_seats * target_pct / 100), from the input and the reported target.
RawBreakeven ==
    Div(location_data.avg_exp_total_po_expense_amount,
        Div(Mul(Num(location_data.total_po_seats), result.target_breakeven_occupancy_pct),
            Num(100)))

IsMultipleOf50000(x) == x[2] = 1 /\ x[1] % 50000 = 0

\* |x - y| <= 25,000
WithinHalfStep(x, y) == Le(Sub(x, y), Num(25000)) /\ Le(Sub(y, x), Num(25000))

Clamped(x, lo, hi) ==
    IF ~IsNone(lo) /\ Lt(x, lo) THEN lo
    ELSE IF ~IsNone(hi) /\ Lt(hi, x) THEN hi
    ELSE x

\* Floor and floor + 1 of price_with_margin / 50,000 times 50,000: the only
\* multiples of 50,000 that can be nearest to price_with_margin.
NearestCandidates ==
    LET k == Floor(Div(result.price_with_margin, Num(50000)))
    IN  { Num(k * 50000), Num((k + 1) * 50000) }

\* C1: calculate_pricing computes raw = avg_expense / (seats * target/100),
\* base_price = raw * multiplier (on the unrounded raw value), price_with_margin =
\* base_price * (1 + margin), final_price = clamp(a nearest multiple of 50,000 of
\* price_with_margin, min, max) and recommended_price = final_price, with no
\* rounding in between; for expense 1,000,000, 10 seats, target 50, occupancy 40,
\* tiers (0,50] -> 0.8, margin 0.5 and bounds that do not bind the values are
\* 200,000 / 160,000 / 240,000 / 250,000.
C1_StagesInOrder ==
    Priced =>
        /\ result.base_price = Mul(RawBreakeven, result.dynamic_multiplier)
        /\ result.price_with_margin = Mul(result.base_price, Add(Num(1), ConfiguredMargin))
        /\ \E m \in NearestCandidates :
              /\ WithinHalfStep(m, result.price_with_margin)
              /\ result.final_price = Clamped(m, ConfiguredMin, ConfiguredMax)
        /\ result.recommended_price = result.final_price
        /\ ( /\ location_data.avg_exp_total_po_expense_amount = Num(1000000)
             /\ location_data.total_po_seats = 10
             /\ location_data.po_seats_occupied_actual_pct = Num(40)
             /\ result.target_breakeven_occupancy_pct = Num(50)
             /\ ConfiguredTiers = TiersTwo
             /\ ConfiguredMargin = Rat(1, 2)
             /\ (IsNone(ConfiguredMin) \/ Le(ConfiguredMin, Num(250000)))
             /\ (IsNone(ConfiguredMax) \/ Le(Num(250000), ConfiguredMax))
             => /\ RawBreakeven = Num(200000)
                /\ result.base_price = Num(160000)
                /\ result.price_with_margin = Num(240000)
                /\ result.final_price = Num(250000) )

\* The worked example of C1 has been priced.
C1_Witness ==
    /\ Priced
    /\ OrdinaryInput
    /\ location_data.avg_exp_total_po_expense_amount = Num(1000000)
    /\ location_data.total_po_seats = 10
    /\ location_data.po_seats_occupied_actual_pct = Num(40)
    /\ result.target_breakeven_occupancy_pct = Num(50)
    /\ result.dynamic_multiplier = Rat(4, 5)
    /\ ConfiguredMargin = Rat(1, 2)
    /\ result.breakeven_price = Num(200000)
    /\ result.final_price = Num(250000)

\* C2: every returned final_price is a multiple of 50,000 or equals the configured
\* min_price or max_price; clamping follows rounding and nothing is rounded after
\* it, so a price clamped to a bound equals that bound even when the bound is no
\* multiple of 50,000.
C2_MultipleOrBound ==
    Priced =>
        /\ \/ IsMultipleOf50000(result.final_price)
           \/ (~IsNone(ConfiguredMin) /\ result.final_price = ConfiguredMin)
           \/ (~IsNone(ConfiguredMax) /\ result.final_price = ConfiguredMax)
        \* every nearest multiple is below min_price: the result is min_price itself
        /\ ( ~IsNone(ConfiguredMin)
             /\ Lt(Add(result.price_with_margin, Num(25000)), ConfiguredMin)
             => result.final_price = ConfiguredMin )
        \* every nearest multiple is above max_price and not below min_price
        /\ ( ~IsNone(ConfiguredMax)
             /\ Lt(ConfiguredMax, Sub(result.price_with_margin, Num(25000)))
             /\ (IsNone(ConfiguredMin)
                   \/ Le(ConfiguredMin, Sub(result.price_with_margin, Num(25000))))
             => result.final_price = ConfiguredMax )

\* A price was clamped to a bound that is no multiple of 50,000.
C2_Witness ==
    /\ Priced
    /\ OrdinaryInput
    /\ ~IsNone(ConfiguredMin)
    /\ ~IsMultipleOf50000(ConfiguredMin)
    /\ Lt(Num(0), result.price_with_margin)
    /\ Lt(Add(result.price_with_margin, Num(25000)), ConfiguredMin)
    /\ result.final_price = ConfiguredMin

\* C3: the breakeven_price (bottom price) of every result is ceil(raw / 50,000) *
\* 50,000: a multiple of 50,000, >= raw, < raw + 50,000, and raw itself when raw
\* is a multiple of 50,000.
C3_BottomPriceCeiling ==
    Priced =>
        /\ IsMultipleOf50000(result.breakeven_price)
        /\ Le(RawBreakeven, result.breakeven_price)
        /\ Lt(result.breakeven_price, Add(RawBreakeven, Num(50000)))
        /\ (IsMultipleOf50000(RawBreakeven) => result.breakeven_price = RawBreakeven)

\* A raw breakeven between two multiples was rounded up by more than 25,000
\* (rounding to the nearest multiple would have gone down).
C3_Witness ==
    /\ Priced
    /\ OrdinaryInput
    /\ ~IsMultipleOf50000(RawBreakeven)
    /\ Lt(Add(RawBreakeven, Num(25000)), result.breakeven_price)

\* price_with_margin lies exactly halfway between two multiples of 50,000.
Halfway(x) == x[2] = 1 /\ x[1] % 25000 = 0 /\ (x[1] \div 25000) % 2 = 1

\* C4: stage 4 rounds price_with_margin to the nearest multiple of 50,000 and
\* every value exactly halfway between two multiples is rounded up to the higher
\* one, whatever the parity of the lower multiple's quotient.
C4_HalfwayRoundsUp ==
    Priced /\ OrdinaryInput /\ Halfway(result.price_with_margin) =>
        result.final_price =
            Clamped(Add(result.price_with_margin, Num(25000)), ConfiguredMin, ConfiguredMax)

\* The tiers, in list order, whose interval (min, max] contains the occupancy.
MatchingTiers ==
    { i \in 1..Len(ConfiguredTiers) :
        /\ Lt(ConfiguredTiers[i].min_occupancy, location_data.po_seats_occupied_actual_pct)
        /\ Le(location_data.po_seats_occupied_actual_pct, ConfiguredTiers[i].max_occupancy) }

\* C5: the dynamic multiplier is that of the first tier in list order with
\* min_occupancy < occupancy <= max_occupancy (the earlier of two overlapping
\* tiers; max_occupancy selects the tier, min_occupancy does not), 1.0 when no
\* tier matches (so for occupancy 0 against a tier starting at 0), and the
\* dynamic_multiplier field is the value multiplied into base_price.
C5_FirstMatchingTier ==
    Priced =>
        /\ MatchingTiers = {} => result.dynamic_multiplier = Num(1)
        /\ \A i \in MatchingTiers :
              (\A j \in MatchingTiers : i <= j)
                  => result.dynamic_multiplier = ConfiguredTiers[i].multiplier
        /\ location_data.po_seats_occupied_actual_pct = Num(0)
              => result.dynamic_multiplier = Num(1)
        /\ result.base_price = Mul(RawBreakeven, result.dynamic_multiplier)

\* Two overlapping tiers both contain the occupancy and the earlier one was used,
\* with a non-zero price so that the multiplier shows in base_price.
C5_Witness ==
    /\ Priced
    /\ OrdinaryInput
    /\ Cardinality(MatchingTiers) = 2
    /\ result.dynamic_multiplier = ConfiguredTiers[1].multiplier
    /\ ConfiguredTiers[1].multiplier # ConfiguredTiers[2].multiplier
    /\ result.base_price # Num(0)

\* The target the call resolved for the current input (smart or static), which the
\* precondition is tested on.
ResolvedTarget ==
    get_target_breakeven_occupancy(location_data.name, config,
                                   actual_breakeven_occupancy(location_data),
                                   location_data.po_seats_occupied_actual_pct)

\* C6: calculate_pricing raises the precondition error and returns no result
\* whenever total_po_seats is not greater than 0 or the resolved target breakeven
\* occupancy is 0 or null; no result is computed from a zero or negative seat count.
C6_PreconditionError ==
    /\ Priced => location_data.total_po_seats > 0
    /\ ( /\ op = "calculate_pricing"
         /\ build_rules(location_data.name, config).raised = NoError
         /\ \/ location_data.total_po_seats <= 0
            \/ ~Truthy(ResolvedTarget.target)
         => raised = ErrPrecondition )

\* get_target_breakeven_occupancy has returned.
TargetReturned == op = "get_target_breakeven_occupancy" /\ raised = NoError

\* The step function as the specification words it, for breakeven a and occupancy c.
ClaimedMultiplier(a, c) ==
    LET gap == Sub(a, c)
    IN  CASE Le(a, c) /\ Le(a, Num(50)) -> Rat(97, 100)
          [] Le(a, c) /\ Lt(Num(50), a) /\ Le(a, Num(70)) -> Rat(95, 100)
          [] Le(a, c) /\ Lt(Num(70), a) -> Rat(93, 100)
          [] Lt(c, a) /\ Le(gap, Num(15)) -> Rat(97, 100)
          [] Lt(c, a) /\ Lt(Num(15), gap) /\ Le(gap, Num(25)) -> Rat(94, 100)
          [] Lt(c, a) /\ Lt(Num(25), gap) -> Rat(90, 100)

\* C7: the improvement multiplier is 0.97 / 0.95 / 0.93 for a profitable location
\* with breakeven <= 50 / <= 70 / above, and 0.97 / 0.94 / 0.90 for a losing one
\* with gap <= 15 / <= 25 / above; 50, 70, 15 and 25 belong to the lower bucket;
\* smart_target = actual_breakeven * multiplier (80 at occupancy 85 gives 74.4,
\* 80 at occupancy 60 gives 75.2).  Both copies of the step function agree with it.
C7_StepFunction ==
    TargetReturned /\ target.is_smart =>
        LET a == call_args.actual
            c == call_args.current
        IN  /\ target.target = Mul(a, ClaimedMultiplier(a, c))
            /\ calculate_dynamic_improvement_pct(a, c) = ClaimedMultiplier(a, c)
            /\ (a = Num(50) /\ Le(a, c) => target.target = Mul(a, Rat(97, 100)))
            /\ (a = Num(70) /\ Le(a, c) => target.target = Mul(a, Rat(95, 100)))
            /\ (Sub(a, c) = Num(15) => target.target = Mul(a, Rat(97, 100)))
            /\ (Sub(a, c) = Num(25) => target.target = Mul(a, Rat(94, 100)))
            /\ (a = Num(80) /\ c = Num(85) => target.target = Rat(744, 10))
            /\ (a = Num(80) /\ c = Num(60) => target.target = Rat(752, 10))

\* A losing location exactly 25 points below its breakeven of 80 got 0.94.
C7_Witness ==
    /\ TargetReturned
    /\ target.is_smart
    /\ call_args.actual = Num(80)
    /\ call_args.current = Num(55)
    /\ target.target = Rat(752, 10)

\* C8: whenever a result reports is_smart_target and the actual breakeven is known
\* and positive, the target is strictly below the actual breakeven, strictly above
\* 0, and between 90% and 97% of it.
C8_SmartTargetBelowActual ==
    /\ ( Priced /\ result.is_smart_target
         /\ ~IsNone(result.actual_breakeven_occupancy_pct)
         /\ Lt(Num(0), result.actual_breakeven_occupancy_pct)
         => /\ Lt(result.target_breakeven_occupancy_pct, result.actual_breakeven_occupancy_pct)
            /\ Lt(Num(0), result.target_breakeven_occupancy_pct)
            /\ Le(Mul(result.actual_breakeven_occupancy_pct, Rat(90, 100)),
                  result.target_breakeven_occupancy_pct)
            /\ Le(result.target_breakeven_occupancy_pct,
                  Mul(result.actual_breakeven_occupancy_pct, Rat(97, 100))) )
    /\ ( TargetReturned /\ target.is_smart /\ Lt(Num(0), call_args.actual)
         => /\ Lt(target.target, call_args.actual)
            /\ Lt(Num(0), target.target)
            /\ Le(Mul(call_args.actual, Rat(90, 100)), target.target)
            /\ Le(target.target, Mul(call_args.actual, Rat(97, 100))) )

\* A losing location within 15 points of a positive actual breakeven was priced
\* against a smart target.
C8_Witness ==
    /\ Priced
    /\ OrdinaryInput
    /\ result.is_smart_target
    /\ Lt(Num(0), result.actual_breakeven_occupancy_pct)
    /\ result.losing_money
    /\ Le(Sub(result.actual_breakeven_occupancy_pct, location_data.po_seats_occupied_actual_pct),
          Num(15))

\* The static target of a location section: its target_breakeven_occupancy, 70.0 when the key is absent.
StaticTargetOf(lc) ==
    IF Has(lc, "target_breakeven_occupancy") THEN lc["target_breakeven_occupancy"] ELSE Num(70)

C10_BuildRulesDefaultsToFalse ==
    op = "build_rules" /\ ~Has(LocCfg(call_args.location, config), "use_smart_target")
        => /\ raised = NoError
           /\ rules.use_smart_target = FALSE
           /\ DOMAIN config = {}
                 => /\ IsNone(rules.min_price)
                    /\ IsNone(rules.max_price)
                    /\ rules.margin_of_safety = Rat(1, 2)
                    /\ rules.dynamic_pricing_tiers = <<>>

\* The location is not a key of config["locations"].
AbsentLocation(location) == ~Has(Get(config, "locations", EmptyDict), location)

\* The rules of a location without overrides: no bounds, the global margin and tiers.
RulesWithoutOverrides ==
    [min_price |-> None, max_price |-> None,
     margin_of_safety |-> Get(config, "margin_of_safety", Rat(1, 2)),
     dynamic_pricing_tiers |-> Get(config, "dynamic_pricing_tiers", <<>>),
     use_smart_target |-> FALSE]

\* C11: for a location that is absent from config.locations,
\* get_target_breakeven_occupancy returns (70.0, false), is_smart_target_enabled
\* returns false, and calculate_pricing returns a result priced with empty
\* overrides (no bounds, global margin and tiers), target 70.0 and
\* is_smart_target = false; none of the three raises.
C11_AbsentLocationDefaults ==
    /\ ( op = "get_target_breakeven_occupancy" /\ AbsentLocation(call_args.location)
         => /\ raised = NoError
            /\ target = [target |-> Num(70), is_smart |-> FALSE] )
    /\ ( op = "is_smart_target_enabled" /\ AbsentLocation(call_args.location)
         => /\ raised = NoError
            /\ enabled = FALSE )
    /\ ( op = "calculate_pricing" /\ AbsentLocation(location_data.name) /\ OrdinaryInput
         => /\ raised = NoError
            /\ result = pricing_stages(location_data, RulesWithoutOverrides,
                                       actual_breakeven_occupancy(location_data),
                                       Num(70), FALSE) )

\* Smart targeting is on and the section holds a static target that is not a number > 0.
InvalidStaticTarget(lc) ==
    /\ Has(lc, "use_smart_target")
    /\ lc["use_smart_target"]
    /\ ~IsNone(Get(lc, "target_breakeven_occupancy", None))
    /\ ~(IsNumber(lc["target_breakeven_occupancy"]) /\ Lt(Num(0), lc["target_breakeven_occupancy"]))

\* Smart targeting is on with no static target, or with a positive number.
SmartWithValidTarget(lc) ==
    /\ Has(lc, "use_smart_target")
    /\ lc["use_smart_target"]
    /\ \/ IsNone(Get(lc, "target_breakeven_occupancy", None))
       \/ IsNumber(lc["target_breakeven_occupancy"]) /\ Lt(Num(0), lc["target_breakeven_occupancy"])

ConfiguredLocations == DOMAIN Get(config, "locations", EmptyDict)

\* C12: build_rules fails with the invalid-target configuration error naming its
\* location whenever that location has use_smart_target true and a static
\* target_breakeven_occupancy that is not a number > 0 (negative, zero, a string),
\* and accepts use_smart_target true with no static target or a positive one;
\* validate_smart_target_configuration fails whenever some location is in that
\* case, its invalid-target error names a location that is in that case, and it
\* accepts a configuration all of whose locations have smart targeting on with
\* no static target or a positive one.
C12_InvalidStaticTargetRejected ==
    /\ ( op = "build_rules"
         => LET lc == LocCfg(call_args.location, config)
            IN  /\ InvalidStaticTarget(lc)
                      => raised = ErrInvalidTarget /\ named = call_args.location
                /\ SmartWithValidTarget(lc) => raised = NoError )
    /\ ( op = "validate_smart_target_configuration"
         => /\ (\E l \in ConfiguredLocations : InvalidStaticTarget(config["locations"][l]))
                  => /\ raised \in {ErrInvalidTarget, ErrUseSmartTarget}
                     /\ named \in ConfiguredLocations
            /\ raised = ErrInvalidTarget
                  => InvalidStaticTarget(config["locations"][named])
            /\ (\A l \in ConfiguredLocations : SmartWithValidTarget(config["locations"][l]))
                  => raised = NoError )

\* The validation passed a first location with a positive target and failed on
\* the second one, whose static target is invalid, naming it.
C12_Witness ==
    /\ op = "validate_smart_target_configuration"
    /\ raised = ErrInvalidTarget
    /\ named = SecondLocation
    /\ SmartWithValidTarget(config["locations"][TestLocation])
    /\ InvalidStaticTarget(config["locations"][SecondLocation])

\* C13: build_rules takes margin_of_safety from the location override when
\* present, otherwise from the global margin_of_safety, otherwise 0.5; takes the
\* tier list only from the global dynamic_pricing_tiers, in its order (a
\* per-location dynamic_pricing_tiers entry is ignored); and leaves min_price /
\* max_price null when the location does not set them.
C13_RuleResolution ==
    op = "build_rules" /\ raised = NoError
        => LET lc == LocCfg(call_args.location, config)
           IN  /\ rules.margin_of_safety =
                     ( IF Has(lc, "margin_of_safety") THEN lc["margin_of_safety"]
                       ELSE IF Has(config, "margin_of_safety") THEN config["margin_of_safety"]
                       ELSE Rat(1, 2) )
               /\ rules.dynamic_pricing_tiers =
                     ( IF Has(config, "dynamic_pricing_tiers")
                       THEN config["dynamic_pricing_tiers"] ELSE <<>> )
               /\ ~Has(lc, "min_price") => IsNone(rules.min_price)
               /\ ~Has(lc, "max_price") => IsNone(rules.max_price)
               /\ Has(lc, "min_price") => rules.min_price = lc["min_price"]
               /\ Has(lc, "max_price") => rules.max_price = lc["max_price"]

\* The location lists tiers of its own that differ from the global ones and sets
\* no margin: the rules carry the global tiers and the global margin.
C13_Witness ==
    /\ op = "build_rules"
    /\ raised = NoError
    /\ Has(LocCfg(call_args.location, config), "dynamic_pricing_tiers")
    /\ Has(config, "dynamic_pricing_tiers")
    /\ LocCfg(call_args.location, config)["dynamic_pricing_tiers"] # config["dynamic_pricing_tiers"]
    /\ rules.dynamic_pricing_tiers = config["dynamic_pricing_tiers"]
    /\ ~Has(LocCfg(call_args.location, config), "margin_of_safety")
    /\ rules.margin_of_safety = config["margin_of_safety"]
    /\ rules.margin_of_safety # Rat(1, 2)

\* The actual sold price per seat is known: present and > 0.
SoldPriceKnown ==
    /\ ~IsNone(location_data.sold_price_per_po_seat_actual)
    /\ Lt(Num(0), location_data.sold_price_per_po_seat_actual)

\* avg_expense / (sold_price * total_seats) * 100
ClaimedActualBreakeven ==
    Mul(Div(location_data.avg_exp_total_po_expense_amount,
            Mul(location_data.sold_price_per_po_seat_actual,
                Num(location_data.total_po_seats))),
        Num(100))

\* C14: in every result of calculate_pricing, when the actual sold price per seat
\* is known (present and > 0), actual_breakeven_occupancy_pct =
\* avg_expense / (sold_price * total_seats) * 100 and losing_money is true exactly
\* when the current occupancy is strictly below it; when the sold price is
\* unknown, actual_breakeven_occupancy_pct is null and losing_money is false;
\* losing_money and is_losing_money always agree.
C14_ActualBreakevenAndLosingMoney ==
    Priced
        => /\ SoldPriceKnown
                 => /\ result.actual_breakeven_occupancy_pct = ClaimedActualBreakeven
                    /\ result.losing_money
                          <=> Lt(location_data.po_seats_occupied_actual_pct,
                                 ClaimedActualBreakeven)
           /\ ~SoldPriceKnown
                 => /\ IsNone(result.actual_breakeven_occupancy_pct)
                    /\ ~result.losing_money
           /\ result.losing_money = result.is_losing_money

\* The conversion inside the parse function that was called failed.
ParseFailed ==
    CASE op = "parse_float" -> ~_parse_float_internal(val).ok
      [] op = "parse_int" -> ~_parse_int_internal(val).ok
      [] op = "parse_pct" -> ~_parse_pct_internal(val).ok
      [] OTHER -> FALSE

\* C15: parse_float, parse_int and parse_pct never raise, for any value
\* (unparseable text, the empty string, null) and with or without an error
\* context from the caller; on a parse failure parse_float and parse_pct return
\* 0.0 and parse_int returns 0.
C15_ParseNeverRaises ==
    op \in {"parse_float", "parse_int", "parse_pct"}
        => /\ raised = NoError
           /\ ParseFailed => parsed = Num(0)

\* What the percentage normalisation is said to return for a value that converts.
ClaimedPct(v) ==
    IF v.kind = "str" /\ Contains(v.chars, "%")
    THEN float(strip(Remove(v.chars, "%"))).value
    ELSE LET x == IF v.kind = "str" THEN float(v.chars).value ELSE v.num
         IN  IF Lt(abs(x), Num(1)) THEN Mul(x, Num(100)) ELSE x

\* C16: parse_pct normalises to the 0-100 scale: a string containing '%' yields
\* its numeric part unchanged; any other numeric input x yields x * 100 when the
\* absolute value of x is less than 1.0 and x unchanged otherwise (0.7 gives 70,
\* 70 gives 70, 1.0 gives 1.0, -50 gives -50).
C16_PercentNormalised ==
    op = "parse_pct" /\ raised = NoError /\ ~ParseFailed
        => parsed = ClaimedPct(val)

\* A run of the pipeline has returned its list.
PipelineReturned == op = "run_pricing_pipeline"

\* The building names of a table, stripped.
LocationsOf(df) == { strip(df[i].building_name) : i \in 1..Len(df) }

\* The first row of a name in table order.
FirstRow(df, loc) ==
    df[CHOOSE i \in 1..Len(df) :
          /\ strip(df[i].building_name) = loc
          /\ \A j \in 1..(i - 1) : strip(df[j].building_name) # loc]

\* What processing the location alone comes to in the run that has returned.
Outcome(loc) ==
    process_location(input_df, config, target_year, target_month, FirstRow(input_df, loc), loc)

\* The locations whose processing fails: an exception while their inputs are
\* prepared, or an exception of the calculator.
FailingLocations ==
    { loc \in LocationsOf(input_df) : Outcome(loc).kind \in {"raise", "swallowed"} }

\* The table without the rows of the given names.
Without(df, names) == SelectSeq(df, LAMBDA r : strip(r.building_name) \notin names)

\* C17: when processing a location fails, that location alone is omitted: the
\* returned list is, in row order, exactly the list the run returns on the table
\* without the failing locations; results already collected are not discarded.
C17_FailingLocationAloneOmitted ==
    PipelineReturned =>
        outputs = run_pricing_pipeline(Without(input_df, FailingLocations), config,
                                       target_year, target_month).outputs

\* The 3 calendar months strictly before the target month, as (year, month).
PreviousMonths(ty, tm) ==
    { IF tm - k >= 1 THEN <<ty, tm - k>> ELSE <<ty - 1, tm - k + 12>> : k \in 1..3 }

\* The rows of a location in the 3 months strictly before the target month.
RowsBeforeTarget(df, loc, ty, tm) ==
    SelectSeq(df, LAMBDA r : /\ strip(r.building_name) = loc
                             /\ <<r.year, r.month>> \in PreviousMonths(ty, tm))

\* The absolute expense of a row.
AbsoluteExpense(r) == abs(parse_float(r.exp_total_po_expense_amount, FALSE, NoContext).parsed)

\* The average expense the calculator is to be given for a location.
ClaimedAverageExpense(df, loc, ty, tm) ==
    LET Averaged(rows) ==
            IF rows = <<>> THEN AbsoluteExpense(FirstRow(df, loc))
            ELSE Mean([j \in 1..Len(rows) |-> AbsoluteExpense(rows[j])])
    IN  Averaged(RowsBeforeTarget(df, loc, ty, tm))

\* Every expense cell of the location's rows is a number or a numeral.
ExpensesParse(df, loc) ==
    \A i \in 1..Len(df) :
        strip(df[i].building_name) = loc
            => parse_float(df[i].exp_total_po_expense_amount, FALSE, NoContext).raised = NoError

\* C18: the average expense passed to the calculator for a location is the mean
\* of the absolute expenses of the location's rows of the 3 calendar months
\* strictly before the target month (across the turn of the year), and the
\* absolute expense of the current row when there is no such row.
C18_AverageExpenseWindow ==
    PipelineReturned =>
        \A i \in 1..Len(calculator_calls) :
            ExpensesParse(input_df, calculator_calls[i].name)
                => calculator_calls[i].avg_exp_total_po_expense_amount
                     = ClaimedAverageExpense(input_df, calculator_calls[i].name,
                                             target_year, target_month)

\* The seat count of a row as the loop reads it: 0 for an empty cell.
SeatsOf(r) ==
    IF IsBlankOrNan(r.total_po_seats) THEN Num(0)
    ELSE parse_int(r.total_po_seats, NoContext).parsed

\* C19: the returned list has at most one entry per stripped building name, and
\* that entry is the one derived from the first row of the name in table order;
\* no entry is named "holding" in any letter case, and no entry belongs to a
\* name whose first row has a seat count that parses to 0, whatever the later
\* rows of the name say.
C19_FirstRowWinsHoldingAndZeroSeatsExcluded ==
    PipelineReturned =>
        \A i \in 1..Len(outputs) :
            /\ \A j \in 1..Len(outputs) :
                   outputs[j].building_name = outputs[i].building_name => j = i
            /\ outputs[i].building_name \in LocationsOf(input_df)
            /\ <<outputs[i]>> = Outcome(outputs[i].building_name).output
            /\ lower(outputs[i].building_name) # <<"h", "o", "l", "d", "i", "n", "g">>
            /\ SeatsOf(FirstRow(input_df, outputs[i].building_name)) # Num(0)

\* A name whose first row has 0 seats and a later row has seats is missing from a
\* list in which another location is priced.
C19_Witness ==
    /\ PipelineReturned
    /\ outputs # <<>>
    /\ \E i, j \in 1..Len(input_df) :
          /\ i < j
          /\ strip(input_df[i].building_name) = strip(input_df[j].building_name)
          /\ input_df[i] = FirstRow(input_df, strip(input_df[i].building_name))
          /\ SeatsOf(input_df[i]) = Num(0)
          /\ SeatsOf(input_df[j]) = Num(10)
          /\ \A k \in 1..Len(outputs) :
                 outputs[k].building_name # strip(input_df[i].building_name)

\* The daily occupancy records of a location: the cells of its rows that are not null.
DailyRecords(df, loc) ==
    SelectSeq([i \in 1..Len(df) |-> IF strip(df[i].building_name) = loc
                                    THEN df[i].po_seats_occupied_actual_pct ELSE PyNone],
              LAMBDA v : v # PyNone)

\* A record that parses as a percentage.
Parseable(v) == _parse_pct_internal(v).ok

\* The average of the parseable records, rounded to one decimal.
ClaimedOccupancy(records) ==
    LET Averaged(good) == RoundTo(Mean([j \in 1..Len(good) |-> _parse_pct_internal(good[j]).value]), 1)
    IN  Averaged(SelectSeq(records, Parseable))

\* The table in which the unparseable daily records of a location are null.
WithoutUnparseable(df, loc) ==
    [i \in 1..Len(df) |->
        IF strip(df[i].building_name) = loc /\ ~Parseable(df[i].po_seats_occupied_actual_pct)
        THEN [df[i] EXCEPT !.po_seats_occupied_actual_pct = PyNone]
        ELSE df[i]]

\* The run on the given table calls the calculator for the location.
ReachesCalculator(df, loc) ==
    \E i \in 1..Len(run_pricing_pipeline(df, config, target_year, target_month).calls) :
        run_pricing_pipeline(df, config, target_year, target_month).calls[i].name = loc

\* C20: when a location has several daily occupancy records of which some are
\* unparseable and at least one parses, and the location is priced once those
\* records are left out, the run prices it as well, on the average of the
\* parseable records rounded to one decimal.
C20_UnparseableDailyRecordsSkipped ==
    PipelineReturned =>
        \A loc \in LocationsOf(input_df) :
            ( /\ Len(DailyRecords(input_df, loc)) >= 2
              /\ \E j \in 1..Len(DailyRecords(input_df, loc)) : ~Parseable(DailyRecords(input_df, loc)[j])
              /\ \E j \in 1..Len(DailyRecords(input_df, loc)) : Parseable(DailyRecords(input_df, loc)[j])
              /\ ReachesCalculator(WithoutUnparseable(input_df, loc), loc) )
            => \E i \in 1..Len(calculator_calls) :
                  /\ calculator_calls[i].name = loc
                  /\ calculator_calls[i].po_seats_occupied_actual_pct
                       = ClaimedOccupancy(DailyRecords(input_df, loc))

Answered == op \in {"get_pricing_for_all_locations", "get_pricing_for_location"}

\* What the service call behind the answered request came to.
ServiceOutcome ==
    IF op = "get_pricing_for_location"
    THEN get_pricing_for_location(call_args.location, input_df, config,
                                  target_year, target_month, raised = ErrService)
    ELSE get_pricing_for_all_locations(input_df, config, target_year, target_month,
                                       raised = ErrService)

\* C22: an endpoint answers 404 exactly when the service returned no result
\* (an empty list, or no result for the location), 200 with the result exactly
\* when at least one location was priced, and 500 exactly when the service
\* itself raised; "not found" is never answered as 500.
C22_NotFoundIs404 ==
    Answered =>
        /\ response.status_code = 500 <=> ServiceOutcome.raised # NoError
        /\ response.status_code = 404
             <=> (ServiceOutcome.raised = NoError /\ ServiceOutcome.results = <<>>)
        /\ response.status_code = 200
             <=> ( /\ ServiceOutcome.raised = NoError
                   /\ ServiceOutcome.results # <<>>
                   /\ response.body = ServiceOutcome.results )

\* C23: in every result of calculate_pricing the recommended price is at least
\* min_price when it is set and at most max_price when it is set, both at once,
\* whatever pair of bounds the location configures (stated for inputs with
\* seats and a non-negative expense).
C23_PriceWithinBothBounds ==
    Priced /\ OrdinaryInput =>
        /\ ~IsNone(ConfiguredMin) => Le(ConfiguredMin, result.recommended_price)
        /\ ~IsNone(ConfiguredMax) => Le(result.recommended_price, ConfiguredMax)

---------------------------------------------------------------------------
(* C24: the published-price lookup.                                        *)

\* The position of a month on the calendar, counted in months.
MonthIndex(year, month) == year * 12 + month

\* The stored records of the building whose validity range contains the month looked up.
Applicable ==
    { r \in published_prices :
        /\ r.building_name = storage_args.building_name
        /\ MonthIndex(r.year_from, r.month_from) <= MonthIndex(storage_args.year, storage_args.month)
        /\ MonthIndex(storage_args.year, storage_args.month) <= MonthIndex(r.year_to, r.month_to) }

\* The number of months of a record's validity range.
Width(r) == MonthIndex(r.year_to, r.month_to) - MonthIndex(r.year_from, r.month_from) + 1

Narrowest == { r \in Applicable : \A s \in Applicable : Width(r) <= Width(s) }

\* C24: get_published_price returns None exactly when no stored record of the
\* building has a validity range containing the month (bounds inclusive), and
\* otherwise returns the price of the narrowest range that contains it.
C24_NarrowestApplicableRange ==
    op = "get_published_price" =>
        /\ IsNone(storage_return) <=> Applicable = {}
        /\ Applicable # {} => \E r \in Narrowest : storage_return = r.price

---------------------------------------------------------------------------
(* C26: save_published_price replaces the record of its range.             *)

\* Two records are of the same building and the same validity range.
SameRange(r, s) ==
    /\ r.building_name = s.building_name
    /\ r.year_from = s.year_from /\ r.month_from = s.month_from
    /\ r.year_to = s.year_to /\ r.month_to = s.month_to

\* C26: after every save_published_price call the table holds exactly one
\* record of the saved building and range, the record just saved; the records
\* of other buildings or ranges are as before the call; and a lookup of a month
\* that only one stored range covers returns the price of that record.
C26_LastSavedRecordPerRange ==
    [][ /\ op' = "save_published_price" =>
             /\ storage_args' \in published_prices'
             /\ \A r \in published_prices' : SameRange(r, storage_args') => r = storage_args'
             /\ { r \in published_prices' : ~SameRange(r, storage_args') }
                  = { r \in published_prices : ~SameRange(r, storage_args') }
        /\ op' = "get_published_price" =>
             \A r \in Applicable' : Applicable' = {r} => storage_return' = r.price ]_vars

---------------------------------------------------------------------------
(* C25: a reload changes the rows of its months only.                      *)

\* The months from the first to the last month of the call, both included.
ReloadedMonths(args) ==
    IF "start_year" \in DOMAIN args
    THEN { p \in (2020..2030) \X (1..12) :
             /\ MonthIndex(args.start_year, args.start_month) <= MonthIndex(p[1], p[2])
             /\ MonthIndex(p[1], p[2]) <= MonthIndex(args.end_year, args.end_month) }
    ELSE { <<args.year, args.month>> }

\* The rows of a table that are of the given months, and the others, in the table's order.
RowsOf(table, months) == SelectSeq(table, LAMBDA r : <<r.year, r.month>> \in months)
RowsOutside(table, months) == SelectSeq(table, LAMBDA r : <<r.year, r.month>> \notin months)

\* The fetched rows of all months of the call, in the order fetched.
RECURSIVE Concat(_)
Concat(lists) == IF lists = <<>> THEN <<>> ELSE Head(lists) \o Concat(Tail(lists))

\* C25: clear_and_reload_pnl_sms_by_month leaves the rows of every other month
\* as they were, and afterwards the rows of its month are the rows just
\* fetched; the same for the months of clear_and_reload_pnl_sms_by_month_range,
\* whose deletion and whose reload both leave the rows outside the range alone.
C25_ReloadChangesOnlyItsMonths ==
    [][ /\ op' \in {"clear_and_reload_pnl_sms_by_month", "reloaded"} =>
             /\ RowsOutside(pnl_sms_by_month', ReloadedMonths(storage_args'))
                  = RowsOutside(pnl_sms_by_month, ReloadedMonths(storage_args'))
             /\ RowsOf(pnl_sms_by_month', ReloadedMonths(storage_args'))
                  = Concat(storage_args'.rows)
        /\ (op = "delete_from_sqlite_by_range" /\ op' # op) =>
             /\ RowsOutside(pnl_sms_by_month', ReloadedMonths(storage_args))
                  = RowsOutside(pnl_sms_by_month, ReloadedMonths(storage_args))
             /\ RowsOf(pnl_sms_by_month', ReloadedMonths(storage_args)) = <<>> ]_vars

---------------------------------------------------------------------------
(* C27: the loader's window of months.                                     *)

\* The row's month lies from three months before the target month up to the target month.
InWindow(r, ty, tm) ==
    /\ MonthIndex(ty, tm) - 3 <= MonthIndex(r.year, r.month)
    /\ MonthIndex(r.year, r.month) <= MonthIndex(ty, tm)

\* C27: load_monthly_expense_data returns exactly the stored rows (of the
\* location, when one is given) whose month lies in the window from three
\* months before the target month up to and including the target month.
C27_ThreeMonthWindow ==
    op = "load_monthly_expense_data" =>
        storage_return =
            SelectSeq(pnl_sms_by_month, LAMBDA r :
                /\ InWindow(r, storage_args.target_year, storage_args.target_month)
                /\ storage_args.location # <<>> =>
                       lower(r.building_name) = lower(storage_args.location))

---------------------------------------------------------------------------
(* C28: the enumeration of the months of a range.                          *)

\* One of the two loops that build ym is running; it has ended.
Enumerating == op \in {"delete_from_sqlite_by_range", "clear_and_reload_pnl_sms_by_month_range"}

EnumerationEnded ==
    /\ Enumerating
    /\ ~InRange(year_cursor, month_cursor, storage_args.end_year, storage_args.end_month)

\* ym lists the months from the first to the last month of the call, each once, in order.
ListsTheMonths ==
    /\ Len(ym) = Cardinality(ReloadedMonths(storage_args))
    /\ \A i \in 1..Len(ym) :
          /\ ym[i][2] \in 1..12
          /\ MonthIndex(ym[i][1], ym[i][2])
               = MonthIndex(storage_args.start_year, storage_args.start_month) + i - 1

---------------------------------------------------------------------------
(* C29, C30: smart targets of a negative and of a zero average expense.    *)

\* calculate_pricing was called, smart targeting is on for the location with a
\* valid configuration, and the sold price and the seat count are positive.
SmartCall ==
    /\ op = "calculate_pricing"
    /\ SmartWithValidTarget(Overrides)
    /\ SoldPriceKnown
    /\ location_data.total_po_seats > 0

\* C29: with smart targeting on, a positive sold price and positive seats, a
\* negative average expense does not make calculate_pricing fail: the result
\* has a negative actual breakeven occupancy, is_smart_target true, and as
\* target the actual breakeven times the improvement multiplier, which is
\* greater than the actual breakeven.
C29_NegativeExpenseSmartTarget ==
    (SmartCall /\ Lt(location_data.avg_exp_total_po_expense_amount, Num(0))) =>
        /\ raised = NoError
        /\ result.actual_breakeven_occupancy_pct = ClaimedActualBreakeven
        /\ Lt(result.actual_breakeven_occupancy_pct, Num(0))
        /\ result.is_smart_target
        /\ result.target_breakeven_occupancy_pct =
               Mul(ClaimedActualBreakeven,
                   improvement_multiplier(ClaimedActualBreakeven,
                                          location_data.po_seats_occupied_actual_pct))
        /\ Lt(result.actual_breakeven_occupancy_pct, result.target_breakeven_occupancy_pct)

C29_Witness ==
    /\ SmartCall
    /\ Lt(location_data.avg_exp_total_po_expense_amount, Num(0))
    /\ raised = NoError
    /\ result.is_smart_target
    /\ Lt(result.target_breakeven_occupancy_pct, Num(0))

\* What get_target_breakeven_occupancy returns for the call's location on the
\* claimed actual breakeven and the current occupancy.
SmartTargetOfCall ==
    get_target_breakeven_occupancy(location_data.name, config, ClaimedActualBreakeven,
                                   location_data.po_seats_occupied_actual_pct)

\* C30: with smart targeting on, a positive sold price, positive seats and an
\* average expense of exactly 0, the actual breakeven and the smart target are
\* 0 with is_smart_target true, and calculate_pricing raises the precondition
\* error instead of falling back to the static target; and every result
\* calculate_pricing returns has a target_breakeven_occupancy_pct other than 0.
C30_ZeroExpenseSmartTargetRaises ==
    /\ (SmartCall /\ location_data.avg_exp_total_po_expense_amount = Num(0)) =>
          /\ ClaimedActualBreakeven = Num(0)
          /\ SmartTargetOfCall.target = Num(0)
          /\ SmartTargetOfCall.is_smart
          /\ raised = ErrPrecondition
    /\ Priced =>
          /\ ~IsNone(result.target_breakeven_occupancy_pct)
          /\ result.target_breakeven_occupancy_pct # Num(0)

C30_Witness ==
    /\ SmartCall
    /\ location_data.avg_exp_total_po_expense_amount = Num(0)
    /\ ~IsNone(Get(Overrides, "target_breakeven_occupancy", None))
    /\ raised = ErrPrecondition

====
